---- MODULE Spec2Model ----
(***************************************************************************)
(* Model of the DOCX splitter of src/test3.py (with the older variant of   *)
(* src/test2.py where the two differ): the section segmenter, the          *)
(* paragraph and table copiers, the recomposition driver                   *)
(* split_docx_by_heading_with_images with its scratch directory, and the   *)
(* splitter window; and of the batch windows of src/app2.py and            *)
(* src/icn_extraction.py with the ICN labelling of src/app2.py.            *)
(*                                                                         *)
(* Strings are sequences of one-character strings, so that strip(),        *)
(* the filename sanitiser and the formatting of ordinals are computed.     *)
(* Floats are binary numerals with an exponent, rounded as IEEE 754        *)
(* doubles are.                                                            *)
(***************************************************************************)
EXTENDS Integers, Sequences, FiniteSets, TLC

\* ------------------------------------------------------------------ bounds
\* longest source document (top-level blocks) a recomposition pass opens
MaxBlocks == 3
\* longest block sequence handed to the segmenter on its own
MaxSegBlocks == 5
\* longest tail of a title after its filling
MaxTitleTail == 3
\* most calls of the paragraph copier on one target container
MaxCopies == 2
\* most rows of a top-level table handed to the table copier on its own
MaxRows == 2
\* largest numbering definition id of the paragraphs given to copy_numbering
MaxNumId == 2
\* most sections of freely chosen titles handed to the save loop on its own
MaxSaves == 3
\* most documents chosen in the file dialog of one splitter window
MaxPasses == 3
\* most sections of a document split from the splitter window
MaxGuiSections == 2
\* most batch runs started in one batch window
MaxRuns == 2
\* most .docx files in the input folder of a batch
MaxBatchFiles == 2

\* --------------------------------------------------------------- constants
\* English Metric Units per inch (docx.shared.Inches; the divisor of line 101)
EMU_PER_INCH == 914400
\* default picture width in inches (line 96)
DEFAULT_WIDTH_INCHES == 3
\* the sanitised title is cut to this many characters (line 203)
MAX_TITLE_LEN == 50

\* ----------------------------------------------------------------- strings
\* characters Python's str.strip() removes that occur in the model
Whitespace == {" ", "\t", "\n"}

RECURSIVE LStrip(_)
LStrip(s) ==
    IF s = <<>> THEN <<>>
    ELSE IF Head(s) \in Whitespace THEN LStrip(Tail(s)) ELSE s

RECURSIVE RStrip(_)
RStrip(s) ==
    IF s = <<>> THEN <<>>
    ELSE IF s[Len(s)] \in Whitespace THEN RStrip(SubSeq(s, 1, Len(s) - 1)) ELSE s

\* str.strip()
Strip(s) == RStrip(LStrip(s))

RECURSIVE Concat(_)
Concat(ss) == IF ss = <<>> THEN <<>> ELSE Head(ss) \o Concat(Tail(ss))

RECURSIVE Join(_, _)
\* sep.join(ss)
Join(sep, ss) ==
    IF ss = <<>> THEN <<>>
    ELSE IF Len(ss) = 1 THEN ss[1]
    ELSE ss[1] \o sep \o Join(sep, Tail(ss))

DigitChar(d) == <<"0", "1", "2", "3", "4", "5", "6", "7", "8", "9">>[d + 1]

RECURSIVE Dec(_)
\* str(n) for n >= 0
Dec(n) == IF n < 10 THEN <<DigitChar(n)>> ELSE Dec(n \div 10) \o <<DigitChar(n % 10)>>

\* f"{n:02d}"
Pad2(n) == IF n < 10 THEN <<"0">> \o Dec(n) ELSE Dec(n)

Introduction == <<"I", "n", "t", "r", "o", "d", "u", "c", "t", "i", "o", "n">>
SectionPrefix == <<"S", "e", "c", "t", "i", "o", "n", "_">>
DocxSuffix == <<".", "d", "o", "c", "x">>

Digits == {"0", "1", "2", "3", "4", "5", "6", "7", "8", "9"}
Letters ==
    {"a", "b", "c", "d", "e", "f", "g", "h", "i", "j", "k", "l", "m",
     "n", "o", "p", "q", "r", "s", "t", "u", "v", "w", "x", "y", "z",
     "A", "B", "C", "D", "E", "F", "G", "H", "I", "J", "K", "L", "M",
     "N", "O", "P", "Q", "R", "S", "T", "U", "V", "W", "X", "Y", "Z"}
\* c.isalnum() on the characters of the model
IsAlnum(c) == c \in Letters \cup Digits

\* ------------------------------------------------------------- block model
Inherit == "inherit"
NoNum == [numId |-> 0, ilvl |-> 0]
\* a drawing's extent: its cx in EMU, or one of three marks
NoExtent == -1        \* the drawing has no wp:extent
UnparsableCx == -2    \* cx is text that int() rejects with a ValueError
MissingCx == -3       \* the wp:extent has no cx: extent_elem.get('cx') is None
DefaultHeadingStyle == "Heading 1"

Drawing(rId, cx) == [rId |-> rId, cx |-> cx]

Run(text, bold, italic, underline, size, drawings) ==
    [text |-> text, bold |-> bold, italic |-> italic, underline |-> underline,
     name |-> "", size |-> size, color |-> "", drawings |-> drawings]

PlainRun(text) == Run(text, Inherit, Inherit, Inherit, 0, <<>>)

Para(style, align, num, runs) ==
    [kind |-> "P", style |-> style, align |-> align, num |-> num, runs |-> runs]

Tbl(style, autofit, widths, rows) ==
    [kind |-> "T", style |-> style, autofit |-> autofit, widths |-> widths,
     rows |-> rows]

\* Paragraph.text: the run texts concatenated
ParaText(p) == Concat([k \in DOMAIN p.runs |-> p.runs[k].text])

\* isinstance(block, Paragraph) and block.style.name == heading_style
IsHeading(b, hs) == b.kind = "P" /\ b.style = hs

\* the blocks the model's source documents are made of
H1_A == Para("Heading 1", Inherit, NoNum, <<PlainRun(<<" ", "A">>), PlainRun(<<" ">>)>>)
H1_Blank == Para("Heading 1", Inherit, NoNum, <<PlainRun(<<" ">>)>>)
H1_Intro == Para("Heading 1", "center", NoNum, <<PlainRun(Introduction)>>)
H2_B ==
    Para("Heading 2", "left", [numId |-> 1, ilvl |-> 0],
         <<Run(<<"B">>, TRUE, FALSE, Inherit, 12, <<>>)>>)
P_Img ==
    Para("Normal", Inherit, NoNum,
         <<Run(<<"x">>, Inherit, Inherit, Inherit, 0,
               <<Drawing("rId1", 2 * EMU_PER_INCH)>>)>>)
\* a styled, centred, numbered paragraph whose runs hold blanks only
P_BareStyled ==
    Para("List Paragraph", "center", [numId |-> 2, ilvl |-> 0],
         <<Run(<<" ", "\t">>, TRUE, Inherit, FALSE, 14, <<>>), PlainRun(<<>>)>>)
\* a shape: a drawing without a blip, in a paragraph without text
P_Shape ==
    Para("Normal", "center", NoNum,
         <<Run(<<" ">>, Inherit, Inherit, Inherit, 0, <<Drawing("", NoExtent)>>)>>)
\* a numbered paragraph of two runs and three drawings, two of the same rId
P_TwoImg ==
    Para("List Paragraph", Inherit, [numId |-> 2, ilvl |-> 1],
         <<Run(<<"y">>, Inherit, TRUE, TRUE, 0,
               <<Drawing("rId1", NoExtent), Drawing("rId2", EMU_PER_INCH)>>),
           Run(<<>>, Inherit, Inherit, Inherit, 0,
               <<Drawing("rId1", 2 * EMU_PER_INCH)>>)>>)
\* pictures of an extent that is no whole number of inches, of an extent
\* that is not a number, and of no extent
P_Extents ==
    Para("Normal", Inherit, NoNum,
         <<Run(<<"z">>, Inherit, Inherit, Inherit, 0,
               <<Drawing("rId1", 974448), Drawing("rId2", UnparsableCx),
                 Drawing("rId1", 914401), Drawing("rId2", NoExtent)>>)>>)
\* a picture whose wp:extent has no cx
P_NoCx ==
    Para("Normal", Inherit, NoNum,
         <<Run(<<>>, Inherit, Inherit, Inherit, 0,
               <<Drawing("rId1", EMU_PER_INCH), Drawing("rId1", MissingCx)>>)>>)
InnerTbl ==
    Tbl("Table Grid", TRUE, <<0>>,
        << << <<Para("Normal", Inherit, NoNum, <<PlainRun(<<" ", "n">>)>>)>>,
              <<Para("Normal", Inherit, NoNum, <<PlainRun(<<"m">>)>>)>> >> >>)
T_Nested ==
    Tbl("Table Grid", FALSE, <<100, 200>>,
        << << <<Para("Normal", Inherit, NoNum, <<PlainRun(<<"c">>)>>)>>,
              <<InnerTbl>> >> >>)

\* F applied to the value of e, which is computed once
Bind(e, F(_)) == CHOOSE r \in {F(a) : a \in {e}} : TRUE

\* ------------------------------------------------- floating point numbers
\* the bits of the significand of a Python float (an IEEE 754 double)
MANTISSA_BITS == 53
\* binary digits of a quotient that are computed before it is rounded
FRACTION_BYTES == 10

RECURSIVE Bin(_)
\* the binary digits of a natural number, most significant first
Bin(n) == IF n = 0 THEN <<>> ELSE Bin(n \div 2) \o <<n % 2>>

RECURSIVE BitsValue(_)
BitsValue(bits) ==
    IF bits = <<>> THEN 0
    ELSE 2 * BitsValue(SubSeq(bits, 1, Len(bits) - 1)) + bits[Len(bits)]

RECURSIVE IncBits(_)
\* bits + 1
IncBits(bits) ==
    IF bits = <<>> THEN <<1>>
    ELSE IF bits[Len(bits)] = 0 THEN SubSeq(bits, 1, Len(bits) - 1) \o <<1>>
    ELSE IncBits(SubSeq(bits, 1, Len(bits) - 1)) \o <<0>>

\* the float nearest to bits * 2^e (ties to even), bits having at least
\* MANTISSA_BITS digits and no leading zero; sticky tells that the exact value
\* is a little more than bits * 2^e. A float is [m, e], its value m * 2^e.
RoundBits(bits, e, sticky) ==
    LET kept == SubSeq(bits, 1, MANTISSA_BITS)
        dropped == SubSeq(bits, MANTISSA_BITS + 1, Len(bits))
        half == dropped # <<>> /\ dropped[1] = 1
        more == sticky \/ \E j \in 2..Len(dropped) : dropped[j] = 1
        up == half /\ (more \/ kept[MANTISSA_BITS] = 1)
        m == IF up THEN IncBits(kept) ELSE kept
        exp == e + Len(dropped)
    IN  IF Len(m) > MANTISSA_BITS
        THEN [m |-> SubSeq(m, 1, MANTISSA_BITS), e |-> exp + 1]
        ELSE [m |-> m, e |-> exp]

RECURSIVE StripZeros(_)
\* a binary numeral without its leading zeros
StripZeros(bits) == IF bits # <<>> /\ bits[1] = 0 THEN StripZeros(Tail(bits)) ELSE bits

\* the w binary digits of n < 2^w
BinDigits(n, w) == [j \in 1..w |-> (n \div 2 ^ (w - j)) % 2]

RECURSIVE DivBytes(_, _, _)
\* long division of r / b, r < b, eight binary digits a step: k steps give
\* [bits, r], the first 8k binary digits of the fraction and the remainder
DivBytes(r, b, k) ==
    IF k = 0 THEN [bits |-> <<>>, r |-> r]
    ELSE Bind(DivBytes((256 * r) % b, b, k - 1),
              LAMBDA rest : [bits |-> BinDigits((256 * r) \div b, 8) \o rest.bits,
                             r |-> rest.r])

\* a / b in float arithmetic, for integers 0 < a < 2^31 and 0 < b < 2^22: the
\* quotient to FRACTION_BYTES bytes behind the point, rounded to a float
FloatDiv(a, b) ==
    Bind(DivBytes(a % b, b, FRACTION_BYTES),
         LAMBDA q : RoundBits(StripZeros(Bin(a \div b) \o q.bits),
                              0 - 8 * FRACTION_BYTES, q.r # 0))

RECURSIVE MulChunks(_, _, _)
\* bits * c + carry for a numeral of 10k binary digits, ten digits a step
MulChunks(bits, c, carry) ==
    IF bits = <<>> THEN Bin(carry)
    ELSE Bind(BitsValue(SubSeq(bits, Len(bits) - 9, Len(bits))) * c + carry,
              LAMBDA v : MulChunks(SubSeq(bits, 1, Len(bits) - 10), c, v \div 1024)
                         \o BinDigits(v % 1024, 10))

\* x * c in float arithmetic, for a float x and an integer 0 < c < 2^20
FloatMul(x, c) ==
    Bind(StripZeros(MulChunks(BinDigits(0, 60 - Len(x.m)) \o x.m, c, 0)),
         LAMBDA product : RoundBits(product, x.e, FALSE))

\* int(x) for a float x > 0
FloatInt(x) ==
    IF x.e >= 0 THEN BitsValue(x.m \o [j \in 1..x.e |-> 0])
    ELSE IF Len(x.m) + x.e <= 0 THEN 0
    ELSE BitsValue(SubSeq(x.m, 1, Len(x.m) + x.e))

\* Inches(n / d) of docx.shared, in EMU: int((n / d) * 914400), the quotient
\* and the product being floats
InchesOfQuotient(n, d) ==
    IF n = 0 THEN 0
    ELSE Bind(FloatDiv(n, d),
              LAMBDA inches : Bind(FloatMul(inches, EMU_PER_INCH),
                                   LAMBDA emu : FloatInt(emu)))

RECURSIVE SeqsUpTo(_, _)
\* all sequences over S of length at most n
SeqsUpTo(S, n) ==
    IF n = 0 THEN {<<>>}
    ELSE LET shorter == SeqsUpTo(S, n - 1)
         IN  shorter \cup {Append(s, x) : s \in shorter, x \in S}

\* -------------------------------------------------------------- segmenter
\* the indices at which enumerate(blocks) finds a heading, as 0-based indices
RECURSIVE HeadingIndices(_, _, _)
HeadingIndices(blocks, hs, i) ==
    IF i >= Len(blocks) THEN <<>>
    ELSE (IF IsHeading(blocks[i + 1], hs) THEN <<i>> ELSE <<>>)
         \o HeadingIndices(blocks, hs, i + 1)

\* mutant: the leading boundary 0 is added whether or not the first block is a heading
SectionIndices_AlwaysZero(blocks, hs) ==
    <<0>> \o HeadingIndices(blocks, hs, 0) \o <<Len(blocks)>>

\* mutant: the blocks before the first heading get no boundary
SectionIndices_NoLeading(blocks, hs) ==
    HeadingIndices(blocks, hs, 0) \o <<Len(blocks)>>

\* mutant: every paragraph opens a section, whatever its style
SectionIndices_AnyParagraph(blocks, hs) ==
    LET paras(i) == IF blocks[i].kind = "P" THEN <<i - 1>> ELSE <<>>
    IN  (IF blocks[1].kind = "P" THEN <<>> ELSE <<0>>)
        \o Concat([i \in 1..Len(blocks) |-> paras(i)]) \o <<Len(blocks)>>

\* section_indices of a non-empty block list (0-based boundaries)
SectionIndices(blocks, hs) ==
    (IF ~IsHeading(blocks[1], hs) THEN <<0>> ELSE <<>>)
    \o HeadingIndices(blocks, hs, 0) \o <<Len(blocks)>>

\* mutant: the loop stops one boundary pair early
NumIterations_Short(si) == Len(si) - 2

\* range(len(section_indices) - 1)
NumIterations(si) == Len(si) - 1

\* blocks[start:end]
SectionBlocks(blocks, start, end) == SubSeq(blocks, start + 1, end)

\* mutant: the else branch of line 181 is missing, so the leading section gets
\* the fallback title
SectionTitle_NoIntroduction(section_blocks, hs, i) ==
    LET first_block == section_blocks[1]
        title == IF IsHeading(first_block, hs)
                 THEN Strip(ParaText(first_block)) ELSE <<>>
    IN  IF title = <<>> THEN SectionPrefix \o Dec(i + 1) ELSE title

\* the title of the section built by loop iteration i (0-based)
SectionTitle(section_blocks, hs, i) ==
    LET first_block == section_blocks[1]
        title == IF IsHeading(first_block, hs)
                 THEN Strip(ParaText(first_block)) ELSE Introduction
    IN  IF title = <<>> THEN SectionPrefix \o Dec(i + 1) ELSE title

\* the sections the loop over section_indices yields from iteration i on
RECURSIVE SegmentFrom(_, _, _, _)
SegmentFrom(blocks, hs, si, i) ==
    IF i >= NumIterations(si) THEN <<>>
    ELSE LET start == si[i + 1]
             end == si[i + 2]
             sb == SectionBlocks(blocks, start, end)
         IN  (IF start = end THEN <<>>
              ELSE <<[title |-> SectionTitle(sb, hs, i), blocks |-> sb]>>)
             \o SegmentFrom(blocks, hs, si, i + 1)

\* mutant: a section for every pair of boundaries, beginning at 0, none skipped
Segment_Naive(blocks, hs) ==
    IF blocks = <<>> THEN <<>>
    ELSE LET si == <<0>> \o HeadingIndices(blocks, hs, 0) \o <<Len(blocks)>>
             sec(k) ==
                 LET sb == SectionBlocks(blocks, si[k], si[k + 1])
                 IN  [title |-> IF sb = <<>> THEN Introduction
                                ELSE SectionTitle(sb, hs, k - 1),
                      blocks |-> sb]
         IN  [k \in 1..(Len(si) - 1) |-> sec(k)]

\* the (title, blocks) pairs of all sections, in order
Segment(blocks, hs) ==
    IF blocks = <<>> THEN <<>>
    ELSE SegmentFrom(blocks, hs, SectionIndices(blocks, hs), 0)

\* ------------------------------------------------------- source package
\* a related part: an image part with its blob and default_ext, or another part
ImagePart(blob, ext) == [kind |-> "image", blob |-> blob, ext |-> ext]
ChartPart == [kind |-> "chart", blob |-> "", ext |-> ""]

\* the image formats docx's add_picture recognises, by blob
RecognisedBlobs == {"pngA", "pngB"}

\* related_parts of the source packages of the model: rId1 is a PNG with one of
\* two contents, an EMF (a format add_picture rejects), a chart, or is absent
RelsPngA == [r \in {"rId1"} |-> ImagePart("pngA", "png")]
RelsPngB == [r \in {"rId1"} |-> ImagePart("pngB", "png")]
RelsEmf == [r \in {"rId1"} |-> ImagePart("emfE", "emf")]
RelsChart == [r \in {"rId1"} |-> ChartPart]
RelsBroken == [r \in {} |-> ChartPart]
RelTables == {RelsPngA, RelsPngB, RelsEmf, RelsChart, RelsBroken}
\* two images under two relationship ids
RelsTwo ==
    [r \in {"rId1", "rId2"} |->
        IF r = "rId1" THEN ImagePart("pngA", "png") ELSE ImagePart("pngB", "png")]

\* ------------------------------------------------------ scratch directory
\* temp_images holds a set of files, each <<name, content>>, name = <<rId, ext>>
FileNames(files) == {f[1] : f \in files}
FileContent(files, name) == (CHOOSE f \in files : f[1] = name)[2]

\* ----------------------------------------------------------- page geometry
\* page size and margins of a section definition, in EMU
Geometry(h, w, l, r, t, b) ==
    [page_height |-> h, page_width |-> w, left_margin |-> l, right_margin |-> r,
     top_margin |-> t, bottom_margin |-> b]

\* the one section of a new Document(): Letter, 1 and 1.25 inch margins
TemplateGeometry == Geometry(10058400, 7772400, 1143000, 1143000, 914400, 914400)
GeomA4 == Geometry(10692130, 7560310, 900000, 900000, 720000, 720000)
GeomLegalLandscape == Geometry(7772400, 12801600, 914400, 457200, 1371600, 685800)

\* mutant: the geometry is taken from the last section definition of the source
NewDocumentGeometry_Last(doc_sections) ==
    IF doc_sections = <<>> THEN TemplateGeometry ELSE doc_sections[Len(doc_sections)]

\* lines 185-191: the geometry of the section of the new document
NewDocumentGeometry(doc_sections) ==
    IF doc_sections = <<>> THEN TemplateGeometry
    ELSE LET ref_section == doc_sections[1]
         IN  [TemplateGeometry EXCEPT
                 !.page_height = ref_section.page_height,
                 !.page_width = ref_section.page_width,
                 !.left_margin = ref_section.left_margin,
                 !.right_margin = ref_section.right_margin,
                 !.top_margin = ref_section.top_margin,
                 !.bottom_margin = ref_section.bottom_margin]

\* ------------------------------------------------------- paragraph copier
NoPic == [rId |-> "", blob |-> "", width |-> 0]

\* what add_paragraph() gives: no style set, no alignment, no numbering, no run
NewParagraph ==
    [kind |-> "P", style |-> "Normal", align |-> Inherit, num |-> NoNum,
     runs |-> <<>>]

ShapeNote ==
    <<"\n", "[Note: A shape or other drawing object was here and could not be copied.]", "\n">>
BrokenLinkNote ==
    <<"\n", "[Note: A graphical object with a broken link was here and could not be copied.]", "\n">>
ComplexObjectNote ==
    <<"\n", "[Note: A complex graphical object (e.g., a chart or diagram) was here and could not be copied.]", "\n">>

\* add_run(text) followed by font.italic = True
PlaceholderRun(text) ==
    [text |-> text, bold |-> Inherit, italic |-> TRUE, underline |-> Inherit,
     name |-> "", size |-> 0, color |-> "", pic |-> NoPic]

\* add_run().add_picture(img_path, width): the picture holds what the file holds
PictureRun(rId, blob, width) ==
    [text |-> <<>>, bold |-> Inherit, italic |-> Inherit, underline |-> Inherit,
     name |-> "", size |-> 0, color |-> "",
     pic |-> [rId |-> rId, blob |-> blob, width |-> width]]

\* mutant: an unset bold, italic or underline is written as False
CopyRunFormat_Forced(run) ==
    LET forced(v) == IF ToString(v) = ToString(Inherit) THEN FALSE ELSE v
    IN  [text |-> run.text, bold |-> forced(run.bold), italic |-> forced(run.italic),
         underline |-> forced(run.underline), name |-> run.name, size |-> run.size,
         color |-> run.color, pic |-> NoPic]

\* lines 70-78: the run's text and character formatting
CopyRunFormat(run) ==
    [text |-> run.text, bold |-> run.bold, italic |-> run.italic,
     underline |-> run.underline, name |-> run.name, size |-> run.size,
     color |-> run.color, pic |-> NoPic]

\* line 101: int(None) raises a TypeError, which neither except clause (lines
\* 102 and 109) catches
WidthRaises(d) == d.cx = MissingCx

\* lines 96-103, in EMU: Inches(3) unless the extent gives a cx that int()
\* accepts, and then Inches(int(cx) / 914400)
PictureWidth(d) ==
    IF d.cx \in {NoExtent, UnparsableCx} THEN DEFAULT_WIDTH_INCHES * EMU_PER_INCH
    ELSE InchesOfQuotient(d.cx, EMU_PER_INCH)

\* mutant: the file is written at every resolution
NeedsWrite_Always(files, name) == TRUE

\* line 92: not os.path.exists(img_path)
NeedsWrite(files, name) == name \notin FileNames(files)

\* lines 92-94: the blob is written, by open(img_path, "wb"), only when no
\* file of that name exists
StageImage(files, name, blob) ==
    IF NeedsWrite(files, name)
    THEN {f \in files : f[1] # name} \cup {<<name, blob>>}
    ELSE files

\* what the resolution of one image relationship does to the package and to
\* the scratch directory, in order: the blob is read (line 88) and, when no
\* file of that name exists, written (lines 92-94)
ResolutionEvents(files, rId, name) ==
    <<[op |-> "read", rId |-> rId, name |-> name]>>
    \o (IF NeedsWrite(files, name)
        THEN <<[op |-> "write", rId |-> rId, name |-> name]>> ELSE <<>>)

\* lines 81-114 for one drawing; acc = [ok, runs, files, log], ok = FALSE once
\* raised, log the reads and writes so far
CopyDrawing(d, rels, acc) ==
    IF ~acc.ok THEN acc
    ELSE IF d.rId = ""
    THEN [acc EXCEPT !.runs = Append(@, PlaceholderRun(ShapeNote))]
    ELSE IF d.rId \notin DOMAIN rels
    THEN [acc EXCEPT !.runs = Append(@, PlaceholderRun(BrokenLinkNote))]
    ELSE LET related_part == rels[d.rId]
         IN  IF related_part.kind # "image"
             THEN [acc EXCEPT !.runs = Append(@, PlaceholderRun(ComplexObjectNote))]
             ELSE LET img_path == <<d.rId, related_part.ext>>
                      files == StageImage(acc.files, img_path, related_part.blob)
                      onDisk == FileContent(files, img_path)
                      log == acc.log \o ResolutionEvents(acc.files, d.rId, img_path)
                  IN  IF WidthRaises(d) \/ onDisk \notin RecognisedBlobs
                      THEN [ok |-> FALSE, runs |-> acc.runs, files |-> files,
                            log |-> log]
                      ELSE [ok |-> TRUE,
                            runs |-> Append(acc.runs,
                                            PictureRun(d.rId, onDisk, PictureWidth(d))),
                            files |-> files, log |-> log]

RECURSIVE CopyDrawings(_, _, _, _)
CopyDrawings(ds, k, rels, acc) ==
    IF k > Len(ds) THEN acc
    ELSE Bind(CopyDrawing(ds[k], rels, acc),
              LAMBDA a : CopyDrawings(ds, k + 1, rels, a))

RECURSIVE CopyRuns(_, _, _, _)
\* lines 69-114: each run, then the drawings inside it
CopyRuns(runs, k, rels, acc) ==
    IF k > Len(runs) \/ ~acc.ok THEN acc
    ELSE Bind([acc EXCEPT !.runs = Append(@, CopyRunFormat(runs[k]))],
              LAMBDA withRun :
                  Bind(CopyDrawings(runs[k].drawings, 1, rels, withRun),
                       LAMBDA a : CopyRuns(runs, k + 1, rels, a)))

\* mutant: only a paragraph without any run is bare
IsBareParagraph_NoRuns(p) == p.runs = <<>>

\* the test of line 59
IsBareParagraph(p) ==
    /\ Strip(ParaText(p)) = <<>>
    /\ \A k \in DOMAIN p.runs : p.runs[k].drawings = <<>>

\* mutant: a numbering reference the target already carries is kept
CopyNumbering_Merge(source_para, target_para) ==
    IF source_para.num = NoNum \/ target_para.num # NoNum THEN target_para
    ELSE [target_para EXCEPT !.num = source_para.num]

\* lines 46-56: the target's numbering reference is replaced by the source's
CopyNumbering(source_para, target_para) ==
    IF source_para.num = NoNum THEN target_para
    ELSE [target_para EXCEPT !.num = source_para.num]

\* the one paragraph copy_paragraph appends, the scratch files after it,
\* whether it returned (ok) or raised, and its reads and writes
CopyParagraph(source_para, rels, files) ==
    IF IsBareParagraph(source_para)
    THEN [ok |-> TRUE, para |-> NewParagraph, files |-> files, log |-> <<>>]
    ELSE LET styled == [NewParagraph EXCEPT !.style = source_para.style,
                                            !.align = source_para.align]
             numbered == CopyNumbering(source_para, styled)
         IN  Bind(CopyRuns(source_para.runs, 1, rels,
                           [ok |-> TRUE, runs |-> <<>>, files |-> files,
                            log |-> <<>>]),
                  LAMBDA r : [ok |-> r.ok,
                              para |-> [numbered EXCEPT !.runs = r.runs],
                              files |-> r.files, log |-> r.log])

\* mutant: nothing is appended for a bare paragraph
CopyParagraphInto_SkipBare(source_para, target_container, rels, files) ==
    Bind(CopyParagraph(source_para, rels, files),
         LAMBDA c : [ok |-> c.ok,
                     out |-> IF IsBareParagraph(source_para) THEN target_container
                             ELSE Append(target_container, c.para),
                     files |-> c.files, log |-> c.log])

\* copy_paragraph on a container that already holds blocks: add_paragraph()
\* (lines 61 and 64) puts the new paragraph after them
CopyParagraphInto(source_para, target_container, rels, files) ==
    Bind(CopyParagraph(source_para, rels, files),
         LAMBDA c : [ok |-> c.ok, out |-> Append(target_container, c.para),
                     files |-> c.files, log |-> c.log])

\* ----------------------------------------------------------- table copier
IsParagraph(b) == b.kind = "P"

\* mutant: the text of the tables inside the cell is part of the cell's text
RECURSIVE CellText_Deep(_)
CellText_Deep(cell) ==
    LET text(b) ==
            IF b.kind = "P" THEN ParaText(b)
            ELSE Join(<<"\n">>,
                      [r \in DOMAIN b.rows |->
                          Join(<<"\t">>, [c \in DOMAIN b.rows[r] |->
                                              CellText_Deep(b.rows[r][c])])])
    IN  Join(<<"\n">>, [k \in DOMAIN cell |-> text(cell[k])])

\* _Cell.text: the texts of the cell's own paragraphs joined by newlines
CellText(cell) ==
    LET ps == SelectSeq(cell, IsParagraph)
    IN  Join(<<"\n">>, [k \in DOMAIN ps |-> ParaText(ps[k])])

NestedMarker == <<"[Nested Table Content Below]">>

\* add_paragraph(text, style): a run is added only for a non-empty text
TextParagraph(text, style) ==
    [NewParagraph EXCEPT !.style = style,
        !.runs = IF text = <<>> THEN <<>>
                 ELSE <<[text |-> text, bold |-> Inherit, italic |-> Inherit,
                         underline |-> Inherit, name |-> "", size |-> 0,
                         color |-> "", pic |-> NoPic]>>]

\* mutant: the cell texts are joined as they are, blanks around them included
FlattenTable_Untrimmed(source_table) ==
    LET row_text(nested_row) ==
            Join(<<"\t">>, [c \in DOMAIN nested_row |-> CellText(nested_row[c])])
    IN  <<TextParagraph(NestedMarker, "Caption")>>
        \o [r \in DOMAIN source_table.rows |->
               TextParagraph(row_text(source_table.rows[r]), "Normal")]

\* lines 121-129: the paragraphs appended to a cell in place of a nested table
FlattenTable(source_table) ==
    LET row_text(nested_row) ==
            Join(<<"\t">>, [c \in DOMAIN nested_row |-> Strip(CellText(nested_row[c]))])
    IN  <<TextParagraph(NestedMarker, "Caption")>>
        \o [r \in DOMAIN source_table.rows |->
               TextParagraph(row_text(source_table.rows[r]), "Normal")]

RECURSIVE CopyCellBlocks(_, _, _, _)
\* lines 143-148: the blocks of one source cell into the cleared target cell;
\* acc = [ok, out, files]
CopyCellBlocks(cell, k, rels, acc) ==
    IF k > Len(cell) \/ ~acc.ok THEN acc
    ELSE LET block == cell[k]
             next ==
                 IF block.kind = "P"
                 THEN Bind(CopyParagraph(block, rels, acc.files),
                           LAMBDA c : [ok |-> c.ok, out |-> Append(acc.out, c.para),
                                       files |-> c.files])
                 ELSE [acc EXCEPT !.out = @ \o FlattenTable(block)]
         IN  Bind(next, LAMBDA a : CopyCellBlocks(cell, k + 1, rels, a))

\* a cell of the row add_row() gives: it holds one empty paragraph
NewRowCell == <<NewParagraph>>

\* mutant: the paragraph a new cell holds is left in it
ClearContent_Kept(cell) == cell

\* line 143: _element.clear_content() removes every block of the cell
ClearContent(cell) == <<>>

RECURSIVE CopyCells(_, _, _, _)
\* lines 141-148 for one row; acc = [ok, out (the row's cells), files]
CopyCells(row, i, rels, acc) ==
    IF i > Len(row) \/ ~acc.ok THEN acc
    ELSE Bind(CopyCellBlocks(row[i], 1, rels,
                             [ok |-> TRUE, out |-> ClearContent(NewRowCell),
                              files |-> acc.files]),
              LAMBDA c :
                  Bind([ok |-> c.ok, out |-> Append(acc.out, c.out),
                        files |-> c.files],
                       LAMBDA a : CopyCells(row, i + 1, rels, a)))

RECURSIVE CopyRows(_, _, _, _)
\* lines 139-148; acc = [ok, out (the rows), files]
CopyRows(rows, r, rels, acc) ==
    IF r > Len(rows) \/ ~acc.ok THEN acc
    ELSE Bind(CopyCells(rows[r], 1, rels,
                        [ok |-> TRUE, out |-> <<>>, files |-> acc.files]),
              LAMBDA c :
                  Bind([ok |-> c.ok, out |-> Append(acc.out, c.out),
                        files |-> c.files],
                       LAMBDA a : CopyRows(rows, r + 1, rels, a)))

\* copy_table into the document root: the table appended, the scratch files
\* after it and whether it returned or raised
CopyTable(source_table, rels, files) ==
    Bind(CopyRows(source_table.rows, 1, rels,
                  [ok |-> TRUE, out |-> <<>>, files |-> files]),
         LAMBDA r : [ok |-> r.ok,
                     table |-> [kind |-> "T", style |-> source_table.style,
                                autofit |-> source_table.autofit,
                                widths |-> source_table.widths, rows |-> r.out],
                     files |-> r.files])

RECURSIVE CopySectionBlocks(_, _, _, _)
\* lines 194-198: the blocks of one section into its new document;
\* acc = [ok, out, files]
CopySectionBlocks(section_blocks, k, rels, acc) ==
    IF k > Len(section_blocks) \/ ~acc.ok THEN acc
    ELSE LET block == section_blocks[k]
             next ==
                 IF block.kind = "P"
                 THEN Bind(CopyParagraph(block, rels, acc.files),
                           LAMBDA c : [ok |-> c.ok, out |-> Append(acc.out, c.para),
                                       files |-> c.files])
                 ELSE Bind(CopyTable(block, rels, acc.files),
                           LAMBDA c : [ok |-> c.ok, out |-> Append(acc.out, c.table),
                                       files |-> c.files])
         IN  Bind(next, LAMBDA a : CopySectionBlocks(section_blocks, k + 1, rels, a))

\* the source block once copied: lxml's append moves the numPr element of a
\* copied paragraph out of the source (line 56)
RECURSIVE SourceAfterCopy(_)
SourceAfterCopy(block) ==
    IF block.kind = "P"
    THEN IF IsBareParagraph(block) THEN block ELSE [block EXCEPT !.num = NoNum]
    ELSE [block EXCEPT !.rows =
             [r \in DOMAIN block.rows |->
                 [c \in DOMAIN block.rows[r] |->
                     [k \in DOMAIN block.rows[r][c] |->
                         IF block.rows[r][c][k].kind = "P"
                         THEN SourceAfterCopy(block.rows[r][c][k])
                         ELSE block.rows[r][c][k]]]]]

\* the state of a run of calls of copy_paragraph: the package and the scratch
\* files it began with, the source paragraphs as they were handed over and as
\* they are after their call, the target container, the scratch files, the
\* reads and writes, and whether the last call returned
NewCopy(rel, files) ==
    [rels |-> rel, files0 |-> files, sources |-> <<>>, after |-> <<>>,
     target |-> <<>>, files |-> files, log |-> <<>>, ok |-> TRUE]

\* the state of the save loop of lines 201-207: the titles of the list
\* sections, the index reached, and the files of the output directory, each
\* <<path, ordinal of the section it holds>>
NewSaves(titles) == [sections |-> titles, i |-> 0, files |-> {}]

\* the splitter window as lines 256-274 build it: the state of its button,
\* whether its file dialog is open, the progress bar, the status label, and
\* the worker threads started so far
NewGui ==
    [button |-> "normal", dialog |-> FALSE, progress |-> 0, status |-> "Ready",
     workers |-> <<>>]

\* a worker thread as line 241 starts it, for a document that has total
\* sections: where it is ("split", "box", "finally", "ended"), the callbacks
\* made, and the message box it shows
NewWorker(total) == [pc |-> "split", total |-> total, completed |-> 0, box |-> "none"]

\* a batch window as App.__init__ leaves it (app2.py 76-138, icn_extraction.py
\* 94-134): which program it is, whether both folders are chosen, the state
\* of the Start button, whether a call of the queue poller is pending
\* (root.after), the log queue, the text of the log widget, what the worker
\* threads have still to put into the queue, the messages put since the last
\* start, and the number of runs started
NewBatchWindow(app) ==
    [app |-> app, folders |-> FALSE, button |-> "normal", poller |-> TRUE,
     queue |-> <<>>, log |-> <<>>, todo |-> <<>>, put |-> <<>>, runs |-> 0]

NoBatchWindow == [NewBatchWindow("none") EXCEPT !.poller = FALSE]

\* an ICN batch when run_batch_thread is called (app2.py 166): the .docx files
\* of the input folder, each [name, doc], the Sequence Start of the window,
\* where the thread is ("start", "files", "done" or "raised"), the number of
\* files done, current_sq, pad_len, the documents saved and the ICN labels
\* inserted, in processing order
NewIcnBatch(files, sq_start) ==
    [files |-> files, sq_start |-> sq_start, pc |-> "start", done |-> 0,
     current_sq |-> 0, pad_len |-> 0, saved |-> <<>>, labels |-> <<>>]

\* the state of one call of copy_numbering: its arguments and the target after
NewNumbering(source_para, target_para) ==
    [source |-> source_para, target |-> target_para, done |-> FALSE,
     out |-> target_para]

\* the state of one call of copy_table on a new document: the source table,
\* the package, the table appended, the scratch files and whether it returned
NewTableCopy(source_table, rel) ==
    [source |-> source_table, rels |-> rel, done |-> FALSE, ok |-> TRUE,
     out |-> Tbl("", FALSE, <<>>, <<>>), files |-> {}]

\* ------------------------------------------------------------ the program
VARIABLES
    pc,              \* "idle", "running" (inside the pass) or "done" (it returned or raised)
    blocks,          \* list(iter_block_items(doc)) of the pass
    rels,            \* related_parts of the source package of the pass
    src_sections,    \* doc.sections of the source: the geometry of each section definition
    has_callback,    \* whether progress_callback was given
    section_indices, \* section_indices
    i,               \* the counter of the loop of line 172
    sections,        \* sections: (title, current_doc) pairs
    saved,           \* the files this pass has written to output_dir, in order
    cb_log,          \* the arguments of the progress_callback calls, in order
    trace,           \* the documents constructed, files saved and callbacks made, in order
    temp_exists,     \* whether output_dir/temp_images exists
    temp_files,      \* the files in output_dir/temp_images
    result,          \* how the pass ended
    seg_blocks,      \* the segmenter on its own: its block sequence,
    seg_style,       \* its heading style name,
    seg_out,         \* the sections it returned
    seg_done,        \* and whether it has run
    nm,              \* the naming of an output file on its own: title, index, name
    cp,              \* the paragraph copier on its own: sources, target, scratch files
    tb,              \* the table copier on its own: source table, target table
    nu,              \* copy_numbering on its own: source and target paragraph
    sv,              \* the save loop on its own: titles and the paths written
    gui,             \* the splitter window: its button, its worker threads
    bq,              \* a batch window: its button, its queue, its poller, its worker
    icn              \* an ICN batch: its files, its sequence, the labels inserted

vars ==
    <<pc, blocks, rels, src_sections, has_callback, section_indices, i, sections,
      saved,
      cb_log, trace, temp_exists, temp_files, result,
      seg_blocks, seg_style, seg_out, seg_done, nm, cp, tb,
      nu, sv, gui, bq, icn>>

passVars ==
    <<pc, blocks, rels, src_sections, has_callback, section_indices, i, sections,
      saved,
      cb_log, trace, temp_exists, temp_files, result>>

segVars == <<seg_blocks, seg_style, seg_out, seg_done>>

\* the state of the operations that are also run on their own
laterVars == <<nu, sv, gui, bq, icn>>
auxVars == <<nm, cp, tb, laterVars>>

BlockAlphabet == {H1_A, H1_Blank, H1_Intro, H2_B, P_Img, T_Nested}
HeadingStyles == {"Heading 1", "Heading 2"}

\* the source documents and packages a pass may open
PassAlphabet == {H1_A, H1_Blank, P_Img, T_Nested}
SourceDocuments == SeqsUpTo(PassAlphabet, MaxBlocks)
PassRelTables == {RelsPngA, RelsPngB, RelsEmf, RelsBroken}

\* the section definitions of each of these packages: one, several or none
PackageSections(rel) ==
    IF rel = RelsPngA THEN <<GeomA4>>
    ELSE IF rel = RelsPngB THEN <<GeomLegalLandscape, GeomA4>>
    ELSE IF rel = RelsEmf THEN <<GeomA4, GeomLegalLandscape, GeomA4>>
    ELSE <<>>
PassPackages == {[rels |-> rel, sections |-> PackageSections(rel)] : rel \in PassRelTables}

NotReturned == [kind |-> "none", value |-> 0]
Returned(n) == [kind |-> "returned", value |-> n]
Raised == [kind |-> "raised", value |-> 0]

InitPass ==
    /\ pc = "idle"
    /\ blocks = <<>>
    /\ rels = RelsBroken
    /\ src_sections = <<>>
    /\ has_callback = FALSE
    /\ section_indices = <<>>
    /\ i = 0
    /\ sections = <<>>
    /\ saved = <<>>
    /\ cb_log = <<>>
    /\ trace = <<>>
    /\ temp_exists = FALSE
    /\ temp_files = {}
    /\ result = NotReturned

\* the segmenter on its own has not been given anything
SegIdle ==
    /\ seg_blocks = <<>>
    /\ seg_style = DefaultHeadingStyle
    /\ seg_out = <<>>
    /\ seg_done = FALSE

\* no file name has been asked for
NameIdle == nm = [title |-> <<>>, n |-> 0, done |-> FALSE, safe_title |-> <<>>,
                  out_name |-> <<>>]

\* the paragraph copier on its own has not been given anything
CopyIdle == cp = NewCopy(RelsBroken, {})

\* the table copier on its own has not been given anything
TableIdle == tb = NewTableCopy(Tbl("", FALSE, <<>>, <<>>), RelsBroken)

\* copy_numbering on its own has not been given anything
NumIdle == nu = NewNumbering(NewParagraph, NewParagraph)
\* the save loop on its own has not been given anything
SavesIdle == sv = NewSaves(<<>>)
\* the splitter window has not been used
GuiIdle == gui = NewGui
\* no batch window is open
BatchIdle == bq = NoBatchWindow
\* no ICN batch has been given
IcnIdle == icn = NewIcnBatch(<<>>, <<>>)

LaterIdle == NumIdle /\ SavesIdle /\ GuiIdle /\ BatchIdle /\ IcnIdle

AuxIdle == NameIdle /\ CopyIdle /\ TableIdle /\ LaterIdle

Init ==
    /\ InitPass
    /\ SegIdle
    /\ AuxIdle

\* mutant: the title is cut before its trailing whitespace is removed
SafeTitle_CutFirst(title) ==
    LET keep(c) == IsAlnum(c) \/ c \in {" ", "_", "-"}
        kept == SelectSeq(title, keep)
    IN  RStrip(SubSeq(kept, 1, IF Len(kept) < MAX_TITLE_LEN THEN Len(kept)
                                  ELSE MAX_TITLE_LEN))

\* "".join(c for c in title if c.isalnum() or c in " _-").rstrip()[:50]
SafeTitle(title) ==
    LET keep(c) == IsAlnum(c) \/ c \in {" ", "_", "-"}
        stripped == RStrip(SelectSeq(title, keep))
    IN  SubSeq(stripped, 1, IF Len(stripped) < MAX_TITLE_LEN THEN Len(stripped)
                               ELSE MAX_TITLE_LEN)

\* mutant: the file name carries no ordinal
OutName_NoOrdinal(n, title) == SafeTitle(title) \o DocxSuffix

\* mutant: the file name carries the 0-based loop index
OutName_ZeroBased(n, title) == Pad2(n) \o <<"_">> \o SafeTitle(title) \o DocxSuffix

\* the file name of line 204 for enumerate index n (0-based)
OutName(n, title) == Pad2(n + 1) \o <<"_">> \o SafeTitle(title) \o DocxSuffix

\* mutant: the callback is given the 0-based loop index
CallbackArgs_ZeroBased(n, total) == <<n, total>>

\* the arguments of line 207 for enumerate index n (0-based)
CallbackArgs(n, total) == <<n + 1, total>>

\* lines 152-170 when the source opens: both directories are made, the source
\* is read; an empty source returns 0 at once
StartPass(src, pkg, cb) ==
    /\ pc = "idle"
    /\ temp_exists' = TRUE
    /\ UNCHANGED temp_files
    /\ blocks' = src
    /\ rels' = pkg.rels
    /\ src_sections' = pkg.sections
    /\ has_callback' = cb
    /\ sections' = <<>>
    /\ saved' = <<>>
    /\ cb_log' = <<>>
    /\ trace' = <<>>
    /\ i' = 0
    /\ IF src = <<>>
       THEN /\ section_indices' = <<>>
            /\ result' = Returned(0)
            /\ pc' = "done"
       ELSE /\ section_indices' = SectionIndices(src, DefaultHeadingStyle)
            /\ result' = NotReturned
            /\ pc' = "running"
    /\ UNCHANGED <<segVars, auxVars>>

\* lines 152-158 when Document_factory(docx_path) raises
OpenFails ==
    /\ pc = "idle"
    /\ temp_exists' = TRUE
    /\ UNCHANGED temp_files
    /\ blocks' = <<>>
    /\ rels' = RelsBroken
    /\ src_sections' = <<>>
    /\ has_callback' = FALSE
    /\ section_indices' = <<>>
    /\ sections' = <<>>
    /\ saved' = <<>>
    /\ cb_log' = <<>>
    /\ trace' = <<>>
    /\ i' = 0
    /\ result' = Raised
    /\ pc' = "done"
    /\ UNCHANGED <<segVars, auxVars>>

\* one iteration of the loop of lines 172-199
BuildSection ==
    /\ pc = "running"
    /\ i < NumIterations(section_indices)
    /\ \E start \in {section_indices[i + 1]}, end \in {section_indices[i + 2]} :
       \E section_blocks \in {SectionBlocks(blocks, start, end)} :
       \E c \in {IF start = end THEN [ok |-> TRUE, out |-> <<>>, files |-> temp_files]
                  ELSE CopySectionBlocks(section_blocks, 1, rels,
                                         [ok |-> TRUE, out |-> <<>>,
                                          files |-> temp_files])} :
           IF start = end
           THEN /\ i' = i + 1
                /\ UNCHANGED <<pc, blocks, sections, trace, temp_files, result>>
           ELSE /\ temp_files' = c.files
                /\ trace' = Append(trace, [ev |-> "construct", k |-> Len(sections) + 1])
                /\ blocks' = [k \in DOMAIN blocks |->
                                 IF start < k /\ k <= end
                                 THEN SourceAfterCopy(blocks[k]) ELSE blocks[k]]
                /\ IF c.ok
                   THEN /\ sections' =
                               Append(sections,
                                      [title |-> SectionTitle(section_blocks,
                                                              DefaultHeadingStyle, i),
                                       doc |-> c.out,
                                       geom |-> NewDocumentGeometry(src_sections),
                                       blocks |-> section_blocks])
                        /\ i' = i + 1
                        /\ UNCHANGED <<pc, result>>
                   ELSE /\ result' = Raised
                        /\ pc' = "done"
                        /\ UNCHANGED <<sections, i>>
    /\ UNCHANGED <<rels, src_sections, has_callback, section_indices, saved, cb_log,
                   temp_exists>>
    /\ UNCHANGED <<segVars, auxVars>>

\* the guard of the loop of lines 202-207: all sections are built, one is unsaved
Saving ==
    /\ pc = "running"
    /\ i >= NumIterations(section_indices)
    /\ Len(saved) < Len(sections)

\* one iteration of the loop of lines 202-207: the file is written, then the
\* callback, if any, is called
SaveSection ==
    /\ Saving
    /\ LET n == Len(saved)
           total == Len(sections)
           file == [path |-> OutName(n, sections[n + 1].title),
                    doc |-> sections[n + 1].doc,
                    geom |-> sections[n + 1].geom]
       IN  /\ saved' = Append(saved, file)
           /\ cb_log' = IF has_callback
                        THEN Append(cb_log, CallbackArgs(n, total)) ELSE cb_log
           /\ trace' = trace \o <<[ev |-> "save", k |-> n + 1]>>
                       \o (IF has_callback
                           THEN <<[ev |-> "callback", k |-> n + 1]>> ELSE <<>>)
    /\ UNCHANGED <<pc, blocks, rels, src_sections, has_callback, section_indices, i, sections,
                   temp_exists, temp_files, result>>
    /\ UNCHANGED <<segVars, auxVars>>

\* line 205 when section_doc.save(out_path) raises
SaveFails ==
    /\ Saving
    /\ result' = Raised
    /\ pc' = "done"
    /\ UNCHANGED <<blocks, rels, src_sections, has_callback, section_indices, i, sections, saved,
                   cb_log, trace, temp_exists, temp_files>>
    /\ UNCHANGED <<segVars, auxVars>>

\* lines 209-211: the scratch directory is removed and the count returned
Finish ==
    /\ pc = "running"
    /\ i >= NumIterations(section_indices)
    /\ Len(saved) = Len(sections)
    /\ temp_exists' = FALSE
    /\ temp_files' = {}
    /\ result' = Returned(Len(sections))
    /\ pc' = "done"
    /\ UNCHANGED <<blocks, rels, src_sections, has_callback, section_indices, i, sections, saved,
                   cb_log, trace>>
    /\ UNCHANGED <<segVars, auxVars>>

\* the call is over (lines 228-239 of its caller): its locals are gone, the
\* directories stay as the pass left them, and another pass may be started
TaskEnds ==
    /\ pc = "done"
    /\ pc' = "idle"
    /\ blocks' = <<>>
    /\ rels' = RelsBroken
    /\ src_sections' = <<>>
    /\ has_callback' = FALSE
    /\ section_indices' = <<>>
    /\ i' = 0
    /\ sections' = <<>>
    /\ saved' = <<>>
    /\ cb_log' = <<>>
    /\ trace' = <<>>
    /\ result' = NotReturned
    /\ UNCHANGED <<temp_exists, temp_files>>
    /\ UNCHANGED <<segVars, auxVars>>

Next ==
    \/ OpenFails
    \/ \E src \in SourceDocuments, pkg \in PassPackages, cb \in BOOLEAN :
           StartPass(src, pkg, cb)
    \/ BuildSection
    \/ SaveSection
    \/ SaveFails
    \/ Finish
    \/ TaskEnds

Spec == Init /\ [][Next]_vars

\* -------------------------------------------------- the segmenter on its own
InitSeg ==
    /\ InitPass
    /\ seg_blocks \in SeqsUpTo(BlockAlphabet, MaxSegBlocks)
    /\ seg_style \in HeadingStyles
    /\ seg_out = <<>>
    /\ seg_done = FALSE
    /\ AuxIdle

\* lines 161-183 applied to the block sequence
ApplySegment ==
    /\ ~seg_done
    /\ seg_out' = Segment(seg_blocks, seg_style)
    /\ seg_done' = TRUE
    /\ UNCHANGED <<seg_blocks, seg_style>>
    /\ UNCHANGED <<passVars, auxVars>>

NextSeg == ApplySegment

SpecSeg == InitSeg /\ [][NextSeg]_vars

\* ------------------------------------- the paragraph copier on its own
\* the paragraphs handed to copy_paragraph and the packages they come from
CopySources ==
    {H1_A, H1_Blank, H2_B, P_Img, P_Shape, P_TwoImg, P_BareStyled, P_Extents, P_NoCx}
CopyRelTables == RelTables \cup {RelsTwo}
\* temp_images when the pass begins: empty, or holding what an earlier pass
\* that raised has left (lines 209-210 were not reached)
LeftOverFiles == {{}, {<<<<"rId1", "png">>, "pngB">>}}

InitCopy ==
    /\ InitPass
    /\ SegIdle
    /\ NameIdle
    /\ LaterIdle
    /\ cp \in {NewCopy(rel, files) : rel \in CopyRelTables, files \in LeftOverFiles}
    /\ TableIdle

\* one call copy_paragraph(source_para, target_container, temp_img_dir), the
\* target being the container the calls before it have filled
CopyOne(source_para) ==
    /\ cp.ok
    /\ Len(cp.sources) < MaxCopies
    /\ \E c \in {CopyParagraphInto(source_para, cp.target, cp.rels, cp.files)} :
           cp' = [cp EXCEPT !.sources = Append(@, source_para),
                            !.after = Append(@, SourceAfterCopy(source_para)),
                            !.target = c.out,
                            !.files = c.files,
                            !.log = @ \o c.log,
                            !.ok = c.ok]
    /\ UNCHANGED <<passVars, segVars, nm, tb, laterVars>>

NextCopy == \E source_para \in CopySources : CopyOne(source_para)

SpecCopy == InitCopy /\ [][NextCopy]_vars

\* ----------------------------------------- the table copier on its own
TextPara(text) == Para("Normal", Inherit, NoNum, <<PlainRun(text)>>)
EmptyPara == Para("Normal", Inherit, NoNum, <<>>)
\* nested tables: of two rows, with an empty cell, a cell of two paragraphs
\* and cells whose text has blanks around it; and one that itself holds a
\* table and a picture
InnerTwoRows ==
    Tbl("Table Grid", TRUE, <<0>>,
        << << <<TextPara(<<"p", " ">>), TextPara(<<"q">>)>>, <<EmptyPara>>, <<TextPara(<<"\t", "r">>)>> >>,
           << <<TextPara(<<" ">>)>>, <<TextPara(<<"s">>)>>, <<TextPara(<<"t">>)>> >> >>)
InnerDeep ==
    Tbl("Table Grid", TRUE, <<0>>,
        << << <<TextPara(<<"d">>), InnerTbl, EmptyPara>>, <<P_Img>> >> >>)

\* what a cell of a top-level table may hold
CellPlain == <<TextPara(<<"c">>)>>
CellNested == <<InnerTbl, EmptyPara>>
CellEmpty == <<EmptyPara>>
CellMixed == <<TextPara(<<" ", "k">>), InnerTwoRows, H1_Blank>>
CellDeep == <<InnerDeep, H2_B>>
CellPicture == <<P_Img>>

\* the rows of the top-level tables of the model, of two cells each
TableRows ==
    {<<CellPlain, CellNested>>, <<CellMixed, CellPlain>>, <<CellDeep, CellMixed>>,
     <<CellPicture, CellDeep>>, <<CellNested, CellPicture>>, <<CellEmpty, CellPlain>>}

\* style, autofit flag and column widths of the top-level tables
TableLooks ==
    {[style |-> "Table Grid", autofit |-> FALSE, widths |-> <<100, 200>>],
     [style |-> "Light List", autofit |-> TRUE, widths |-> <<EMU_PER_INCH, 0>>]}

SourceTables ==
    {Tbl(look.style, look.autofit, look.widths, rows) :
        look \in TableLooks, rows \in SeqsUpTo(TableRows, MaxRows)}

InitTable ==
    /\ InitPass
    /\ SegIdle
    /\ NameIdle
    /\ CopyIdle
    /\ LaterIdle
    /\ tb \in {NewTableCopy(t, rel) : t \in SourceTables, rel \in RelTables}

\* one call copy_table(source_table, current_doc, temp_img_dir) (line 198)
ApplyCopyTable ==
    /\ ~tb.done
    /\ \E c \in {CopyTable(tb.source, tb.rels, tb.files)} :
           tb' = [tb EXCEPT !.done = TRUE, !.ok = c.ok, !.out = c.table,
                            !.files = c.files]
    /\ UNCHANGED <<passVars, segVars, nm, cp, laterVars>>

NextTable == ApplyCopyTable

SpecTable == InitTable /\ [][NextTable]_vars

\* --------------------------------------------- copy_numbering on its own
\* the numbering references a paragraph may carry: none, or (numId, ilvl)
NumRefs == {NoNum} \cup {[numId |-> a, ilvl |-> b] : a \in 1..MaxNumId, b \in 0..1}

NumberingSources == {[p EXCEPT !.num = n] : p \in CopySources, n \in NumRefs}
NumberingTargets ==
    {[NewParagraph EXCEPT !.style = st, !.num = n] :
        st \in {"Normal", "List Paragraph", "Heading 2"}, n \in NumRefs}

InitNum ==
    /\ InitPass
    /\ SegIdle
    /\ NameIdle
    /\ CopyIdle
    /\ TableIdle
    /\ SavesIdle
    /\ GuiIdle
    /\ BatchIdle
    /\ IcnIdle
    /\ nu \in {NewNumbering(sp, tp) : sp \in NumberingSources, tp \in NumberingTargets}

\* one call copy_numbering(source_para, target_para)
ApplyCopyNumbering ==
    /\ ~nu.done
    /\ nu' = [nu EXCEPT !.done = TRUE, !.out = CopyNumbering(nu.source, nu.target)]
    /\ UNCHANGED <<passVars, segVars, nm, cp, tb, sv, gui, bq, icn>>

NextNum == ApplyCopyNumbering

SpecNum == InitNum /\ [][NextNum]_vars

\* ---------------------------------------------------- the splitter window
\* mutant: the button is left as it is when a pass starts
StartButtonState_Normal == "normal"

\* line 217: button.config(state='disabled')
StartButtonState == "disabled"

\* line 221: int(completed / total * 100)
Percent(completed, total) ==
    Bind(FloatDiv(completed, total),
         LAMBDA ratio : Bind(FloatMul(ratio, 100), LAMBDA percent : FloatInt(percent)))

\* the button is pressed: a ttk button that is disabled does not call its
\* command, and the windows of a file dialog keep the input from the button;
\* browse_and_split runs up to the file dialog of line 244
ClickButton ==
    /\ gui.button = "normal"
    /\ ~gui.dialog
    /\ Len(gui.workers) < MaxPasses
    /\ gui' = [gui EXCEPT !.dialog = TRUE]
    /\ UNCHANGED <<passVars, segVars, nm, cp, tb, nu, sv, bq, icn>>

\* line 248: the dialog is closed without a file
DialogCancelled ==
    /\ gui.dialog
    /\ gui' = [gui EXCEPT !.dialog = FALSE]
    /\ UNCHANGED <<passVars, segVars, nm, cp, tb, nu, sv, bq, icn>>

\* lines 250-253 and 213-241: a file is chosen (a document of total
\* sections), the bar and the label are set, the button's state is set and
\* the worker thread is started
DialogChosen(total) ==
    /\ gui.dialog
    /\ gui' = [gui EXCEPT !.dialog = FALSE,
                          !.progress = 0,
                          !.status = "Splitting document...",
                          !.button = StartButtonState,
                          !.workers = Append(@, NewWorker(total))]
    /\ UNCHANGED <<passVars, segVars, nm, cp, tb, nu, sv, bq, icn>>

\* lines 219-223, called from the pass on the worker thread (line 207)
ProgressCallback(w) ==
    /\ gui.workers[w].pc = "split"
    /\ gui.workers[w].completed < gui.workers[w].total
    /\ gui' = [gui EXCEPT !.workers[w].completed = @ + 1,
                          !.progress = Percent(gui.workers[w].completed + 1,
                                               gui.workers[w].total)]
    /\ UNCHANGED <<passVars, segVars, nm, cp, tb, nu, sv, bq, icn>>

\* lines 227-231: the pass returns its count and a message box is shown
PassReturns(w) ==
    /\ gui.workers[w].pc = "split"
    /\ gui.workers[w].completed = gui.workers[w].total
    /\ gui' = [gui EXCEPT !.workers[w].pc = "box",
                          !.workers[w].box = IF gui.workers[w].total > 0
                                             THEN "info" ELSE "warning"]
    /\ UNCHANGED <<passVars, segVars, nm, cp, tb, nu, sv, bq, icn>>

\* lines 232-235: the pass raises and the error box is shown
PassRaises(w) ==
    /\ gui.workers[w].pc = "split"
    /\ gui' = [gui EXCEPT !.workers[w].pc = "box", !.workers[w].box = "error"]
    /\ UNCHANGED <<passVars, segVars, nm, cp, tb, nu, sv, bq, icn>>

\* the message box is closed: showinfo, showwarning or showerror returns
BoxClosed(w) ==
    /\ gui.workers[w].pc = "box"
    /\ gui' = [gui EXCEPT !.workers[w].pc = "finally"]
    /\ UNCHANGED <<passVars, segVars, nm, cp, tb, nu, sv, bq, icn>>

\* lines 236-239: the finally block of task, after which the thread ends
TaskFinally(w) ==
    /\ gui.workers[w].pc = "finally"
    /\ gui' = [gui EXCEPT !.workers[w].pc = "ended",
                          !.progress = 0,
                          !.status = "Ready",
                          !.button = "normal"]
    /\ UNCHANGED <<passVars, segVars, nm, cp, tb, nu, sv, bq, icn>>

InitGui ==
    /\ InitPass
    /\ SegIdle
    /\ NameIdle
    /\ CopyIdle
    /\ TableIdle
    /\ NumIdle
    /\ SavesIdle
    /\ gui = NewGui
    /\ BatchIdle
    /\ IcnIdle

NextGui ==
    \/ ClickButton
    \/ DialogCancelled
    \/ \E total \in 0..MaxGuiSections : DialogChosen(total)
    \/ \E w \in DOMAIN gui.workers :
           \/ ProgressCallback(w)
           \/ PassReturns(w)
           \/ PassRaises(w)
           \/ BoxClosed(w)
           \/ TaskFinally(w)

SpecGui == InitGui /\ [][NextGui]_vars

\* ------------------------------------------------------ the batch windows
BatchApps == {"app2", "icn_extraction"}

\* the signal of the worker's finally block (app2.py 206, icn_extraction.py 191)
DONE == "DONE"

\* what one file adds to the queue: app2.py 185, 31, 64 and 200
FileMessages == <<"Processing", "Using DMC", "Found captioned images", "Saved">>

\* what run_batch_thread puts into the queue, in order (app2.py 166-206): the
\* runs that raise at once, that find no .docx file (DONE is put at line 176
\* and again at line 206), that raise inside the first file, and that
\* process n files
BatchScripts ==
    {<<"ERROR", DONE>>,
     <<"Created output folder", "No .docx files found", DONE, DONE>>,
     <<"Created output folder", "Processing", "Using DMC", "ERROR", DONE>>}
    \cup {<<"Created output folder">>
           \o Concat([k \in 1..n |-> FileMessages])
           \o <<"Batch processing complete", DONE>> : n \in 1..MaxBatchFiles}

\* print(text) on the redirected stdout: the text and the line end are written
\* one after the other (icn_extraction.py 182, 214-215)
Printed(text) == <<text, "\n">>

\* what run_extraction puts into the queue, in order (icn_extraction.py
\* 174-191, 67-87): the runs that raise at once, that find no .docx file, and
\* that process n files, each with one picture or with none
ExtractionScripts ==
    {Printed("ERROR") \o <<DONE>>,
     Printed("No .docx files found") \o <<DONE>>}
    \cup {Concat([k \in 1..n |-> Printed("Processing") \o Printed(outcome)])
           \o Printed("Done: All files processed") \o <<DONE>> :
              n \in 1..MaxBatchFiles, outcome \in {"Saved", "Skipping"}}

Scripts(app) == IF app = "app2" THEN BatchScripts ELSE ExtractionScripts

\* what the poller inserts into the log widget for a message: app2.py 216
\* adds a line end, icn_extraction.py 203 does not
Shown(app, msg) == IF app = "app2" THEN <<msg, "\n">> ELSE <<msg>>

\* the place of the first DONE in the queue, or 0
RECURSIVE FirstDone(_, _)
FirstDone(queue, k) ==
    IF k > Len(queue) THEN 0 ELSE IF queue[k] = DONE THEN k ELSE FirstDone(queue, k + 1)

\* app2.py 212-214, icn_extraction.py 198-200: return, without root.after
PollerAfterDone == FALSE

\* select_folder, browse_input and browse_output: both folders are chosen
SelectFolders ==
    /\ ~bq.folders
    /\ bq' = [bq EXCEPT !.folders = TRUE]
    /\ UNCHANGED <<passVars, segVars, nm, cp, tb, nu, sv, gui, icn>>

\* start_processing (app2.py 145-164), start_extraction_thread
\* (icn_extraction.py 157-172): pressed while the button is enabled and both
\* folders are chosen; the button is disabled, the log widget emptied and a
\* worker thread started
StartBatch(script) ==
    /\ bq.button = "normal"
    /\ bq.folders
    /\ bq.runs < MaxRuns
    /\ bq' = [bq EXCEPT !.button = "disabled",
                        !.log = <<>>,
                        !.todo = Append(@, script),
                        !.put = <<>>,
                        !.runs = @ + 1]
    /\ UNCHANGED <<passVars, segVars, nm, cp, tb, nu, sv, gui, icn>>

\* the worker thread w puts its next message into the queue
WorkerPut(w) ==
    /\ w \in DOMAIN bq.todo
    /\ bq.todo[w] # <<>>
    /\ bq' = [bq EXCEPT !.queue = Append(@, Head(bq.todo[w])),
                        !.put = IF Head(bq.todo[w]) = DONE THEN @
                                ELSE Append(@, Head(bq.todo[w])),
                        !.todo[w] = Tail(@)]
    /\ UNCHANGED <<passVars, segVars, nm, cp, tb, nu, sv, gui, icn>>

\* process_queue (app2.py 208-221), process_log_queue (icn_extraction.py
\* 193-208), called by the timer of root.after: the messages are taken and
\* shown up to the first DONE, which enables the button and ends the call;
\* when the queue is empty the call schedules itself again
Poll ==
    /\ bq.poller
    /\ \E done \in {FirstDone(bq.queue, 1)} :
       \E taken \in {IF done = 0 THEN bq.queue ELSE SubSeq(bq.queue, 1, done - 1)} :
           bq' = [bq EXCEPT
                     !.log = @ \o Concat([k \in DOMAIN taken |-> Shown(bq.app, taken[k])]),
                     !.queue = IF done = 0 THEN <<>>
                               ELSE SubSeq(bq.queue, done + 1, Len(bq.queue)),
                     !.button = IF done = 0 THEN @ ELSE "normal",
                     !.poller = IF done = 0 THEN TRUE ELSE PollerAfterDone]
    /\ UNCHANGED <<passVars, segVars, nm, cp, tb, nu, sv, gui, icn>>

InitBatch ==
    /\ InitPass
    /\ SegIdle
    /\ NameIdle
    /\ CopyIdle
    /\ TableIdle
    /\ NumIdle
    /\ SavesIdle
    /\ GuiIdle
    /\ bq \in {NewBatchWindow(app) : app \in BatchApps}
    /\ IcnIdle

NextBatch ==
    \/ SelectFolders
    \/ \E script \in Scripts(bq.app) : StartBatch(script)
    \/ \E w \in 1..MaxRuns : WorkerPut(w)
    \/ Poll

SpecBatch == InitBatch /\ [][NextBatch]_vars

\* the timer of root.after fires while the main loop runs, and a started
\* thread goes on; nobody has to press Start
SpecBatchFair ==
    /\ SpecBatch
    /\ WF_vars(Poll)
    /\ \A w \in 1..MaxRuns : WF_vars(WorkerPut(w))

\* ----------------------------------------------------------- the ICN batch
UpperCase ==
    <<"A", "B", "C", "D", "E", "F", "G", "H", "I", "J", "K", "L", "M",
      "N", "O", "P", "Q", "R", "S", "T", "U", "V", "W", "X", "Y", "Z">>
LowerCase ==
    <<"a", "b", "c", "d", "e", "f", "g", "h", "i", "j", "k", "l", "m",
      "n", "o", "p", "q", "r", "s", "t", "u", "v", "w", "x", "y", "z">>

\* str.lower() on the characters of the model
Lower(s) ==
    [k \in DOMAIN s |->
        IF \E u \in DOMAIN UpperCase : UpperCase[u] = s[k]
        THEN LowerCase[CHOOSE u \in DOMAIN UpperCase : UpperCase[u] = s[k]]
        ELSE s[k]]

\* sub in s
Contains(s, sub) ==
    \E k \in 1..(Len(s) - Len(sub) + 1) : SubSeq(s, k, k + Len(sub) - 1) = sub

\* s.startswith(sub)
StartsWith(s, sub) == Len(s) >= Len(sub) /\ SubSeq(s, 1, Len(sub)) = sub

RECURSIVE SplitOn(_, _, _)
\* s.split(sep), cur being the part read so far
SplitOn(s, sep, cur) ==
    IF s = <<>> THEN <<cur>>
    ELSE IF Head(s) = sep THEN <<cur>> \o SplitOn(Tail(s), sep, <<>>)
    ELSE SplitOn(Tail(s), sep, Append(cur, Head(s)))

\* str(n).zfill(width) for n >= 0
ZFill(n, width) ==
    [k \in 1..(IF Len(Dec(n)) < width THEN width - Len(Dec(n)) ELSE 0) |-> "0"]
    \o Dec(n)

\* int(s) succeeds: s is a decimal numeral (of the model: no sign, no blanks)
IsInt(s) == s # <<>> /\ \A k \in DOMAIN s : s[k] \in Digits

RECURSIVE IntOf(_)
\* int(s) of a decimal numeral
IntOf(s) ==
    IF s = <<>> THEN 0
    ELSE 10 * IntOf(SubSeq(s, 1, Len(s) - 1))
         + (CHOOSE d \in 0..9 : DigitChar(d) = s[Len(s)])

\* re.fullmatch(r"\d{2}", part)
IsTwoDigits(part) == Len(part) = 2 /\ part[1] \in Digits /\ part[2] \in Digits

\* app2.py 19-23: the index (0-based) of the second of the first two
\* neighbouring parts of two digits, or -1
SubsystemIndex(parts) ==
    LET found == {k \in 1..(Len(parts) - 1) :
                     IsTwoDigits(parts[k]) /\ IsTwoDigits(parts[k + 1])}
    IN  IF found = {} THEN -1
        ELSE CHOOSE k \in found : \A m \in found : k <= m

\* None (line 25)
NoIcn == <<>>

IcnWord == <<"I", "C", "N">>

\* generate_icn_code (app2.py 17-27)
GenerateIcnCode(dmc_code, kpc, xyz, sq, icv, issue, sec) ==
    LET parts == SplitOn(dmc_code, "-", <<>>)
        subsystem_index == SubsystemIndex(parts)
    IN  IF subsystem_index = -1 THEN NoIcn
        ELSE Join(<<"-">>,
                  <<IcnWord, Join(<<"-">>, SubSeq(parts, 1, subsystem_index + 1)),
                    kpc, xyz, sq, icv, issue, sec>>)

\* the parameters the window gives when its entries are left as they are
\* (app2.py 110-113, 84)
IcnParams ==
    [kpc |-> <<"1">>, xyz |-> <<"1", "6", "7", "1", "Y">>, icv |-> <<"A">>,
     issue |-> <<"0", "0", "1">>, sec |-> <<"0", "1">>]

FigureWord == <<"f", "i", "g", "u", "r", "e">>

\* app2.py 38: a run of the paragraph holds a graphic
HasImage(para) == \E k \in DOMAIN para.runs : para.runs[k].drawings # <<>>

RECURSIVE CaptionBelow(_, _, _)
\* app2.py 44-50: the first paragraph with text among the three after
\* paragraphs[at] (at from 0) begins with "figure"
CaptionBelow(paragraphs, at, j) ==
    IF j > 3 THEN FALSE
    ELSE IF at + j < Len(paragraphs)
            /\ Strip(ParaText(paragraphs[at + j + 1])) # <<>>
    THEN StartsWith(Lower(Strip(ParaText(paragraphs[at + j + 1]))), FigureWord)
    ELSE CaptionBelow(paragraphs, at, j + 1)

\* app2.py 40-50
CaptionFound(paragraphs, at) ==
    \/ Contains(Lower(ParaText(paragraphs[at + 1])), FigureWord)
    \/ CaptionBelow(paragraphs, at, 1)

\* doc.add_paragraph(icn) moved behind paragraphs[i] (app2.py 58)
LabelParagraph(label) == Para("Normal", Inherit, NoNum, <<PlainRun(label)>>)

RECURSIVE LabelImages(_, _, _, _, _)
\* the loop of app2.py 36-62; st = [paragraphs, sq, generated_icns]
LabelImages(st, at, dmc_code, params, pad_len) ==
    IF at >= Len(st.paragraphs) THEN st
    ELSE IF HasImage(st.paragraphs[at + 1]) /\ CaptionFound(st.paragraphs, at)
    THEN Bind(GenerateIcnCode(dmc_code, params.kpc, params.xyz,
                              ZFill(st.sq, pad_len), params.icv, params.issue,
                              params.sec),
              LAMBDA label :
                  IF label # NoIcn
                  THEN Bind([paragraphs |-> SubSeq(st.paragraphs, 1, at + 1)
                                            \o <<LabelParagraph(label)>>
                                            \o SubSeq(st.paragraphs, at + 2,
                                                      Len(st.paragraphs)),
                             sq |-> st.sq + 1,
                             generated_icns |-> Append(st.generated_icns, label)],
                            LAMBDA next : LabelImages(next, at + 2, dmc_code,
                                                      params, pad_len))
                  ELSE Bind([st EXCEPT !.sq = @ + 1],
                            LAMBDA next : LabelImages(next, at + 1, dmc_code,
                                                      params, pad_len)))
    ELSE LabelImages(st, at + 1, dmc_code, params, pad_len)

\* update_doc_with_icn_labels (app2.py 29-69): the document saved, the next
\* sequence number and the labels inserted
UpdateDocWithIcnLabels(doc, dmc_code, params, start_sq, pad_len) ==
    LabelImages([paragraphs |-> doc, sq |-> start_sq, generated_icns |-> <<>>],
                0, dmc_code, params, pad_len)

\* the paragraphs of the documents of a batch
PicturePara(text) ==
    Para("Normal", Inherit, NoNum,
         <<Run(text, Inherit, Inherit, Inherit, 0, <<Drawing("rId1", EMU_PER_INCH)>>)>>)
FigureCaption == TextPara(<<"F", "i", "g", "u", "r", "e", " ", "1">>)
TableCaption == TextPara(<<"T", "a", "b", "l", "e", " ", "1">>)

\* documents: without a picture; with one captioned picture; with two
\* pictures above one caption and a third with the word in its own
\* paragraph; with a picture whose first text below is no figure caption
IcnDocuments ==
    {<<TableCaption>>,
     <<PicturePara(<<>>), EmptyPara, FigureCaption>>,
     <<PicturePara(<<>>), PicturePara(<<" ">>), FigureCaption,
       PicturePara(<<"s", "e", "e", " ", "F", "I", "G", "U", "R", "E">>)>>,
     <<PicturePara(<<>>), TableCaption, FigureCaption>>}

\* file names without ".docx": one with two neighbouring parts of two digits
\* after its first part, one that begins with them, and two without
DmcCodes ==
    {<<"D", "M", "C", "-", "1", "2", "-", "3", "4", "-", "A">>,
     <<"0", "1", "-", "2", "3">>,
     <<"r", "e", "p", "o", "r", "t">>,
     <<"A", "-", "1", "2", "-", "3", "-", "4", "5">>}

\* what the Sequence Start entry may hold
SequenceStarts == {<<"0", "0", "0", "0", "5">>, <<"9", "8">>, <<"x">>}

IcnFiles == {[name |-> name, doc |-> doc] : name \in DmcCodes, doc \in IcnDocuments}

InitIcn ==
    /\ InitPass
    /\ SegIdle
    /\ NameIdle
    /\ CopyIdle
    /\ TableIdle
    /\ NumIdle
    /\ SavesIdle
    /\ GuiIdle
    /\ BatchIdle
    /\ icn \in {NewIcnBatch(files, sq_start) :
                   files \in SeqsUpTo(IcnFiles, MaxBatchFiles) \ {<<>>},
                   sq_start \in SequenceStarts}

\* app2.py 181-182: current_sq and pad_len are taken from the Sequence Start;
\* int() raises for what is no number
BeginBatch ==
    /\ icn.pc = "start"
    /\ icn' = IF IsInt(icn.sq_start)
              THEN [icn EXCEPT !.pc = "files",
                               !.current_sq = IntOf(icn.sq_start),
                               !.pad_len = Len(icn.sq_start)]
              ELSE [icn EXCEPT !.pc = "raised"]
    /\ UNCHANGED <<passVars, segVars, nm, cp, tb, nu, sv, gui, bq>>

\* one iteration of the loop of app2.py 184-200
ProcessFile ==
    /\ icn.pc = "files"
    /\ icn.done < Len(icn.files)
    /\ \E file \in {icn.files[icn.done + 1]} :
       \E r \in {UpdateDocWithIcnLabels(file.doc, file.name, IcnParams,
                                         icn.current_sq, icn.pad_len)} :
           icn' = [icn EXCEPT !.done = @ + 1,
                              !.current_sq = r.sq,
                              !.saved = Append(@, r.paragraphs),
                              !.labels = @ \o r.generated_icns]
    /\ UNCHANGED <<passVars, segVars, nm, cp, tb, nu, sv, gui, bq>>

\* app2.py 202: every file is done
BatchComplete ==
    /\ icn.pc = "files"
    /\ icn.done = Len(icn.files)
    /\ icn' = [icn EXCEPT !.pc = "done"]
    /\ UNCHANGED <<passVars, segVars, nm, cp, tb, nu, sv, gui, bq>>

NextIcn == BeginBatch \/ ProcessFile \/ BatchComplete

SpecIcn == InitIcn /\ [][NextIcn]_vars

\* ------------------------------------------------ the save loop on its own
\* titles of sections: a heading text, one that differs from it by a
\* character the sanitiser drops, one the sanitiser empties, one that reads
\* like a fallback title (line 183) and one that reads like an ordinal
SaveTitles ==
    {<<"A">>, <<"A", ":">>, <<":">>,
     <<"S", "e", "c", "t", "i", "o", "n", "_", "2">>, <<"0", "2", "_", "A">>}

\* numbers of sections of one and the same title in front of the others
SectionsBefore == {0, 8, 98}

InitSave ==
    /\ InitPass
    /\ SegIdle
    /\ NameIdle
    /\ CopyIdle
    /\ TableIdle
    /\ NumIdle
    /\ sv \in {NewSaves([j \in 1..k |-> <<"x">>] \o titles) :
                  k \in SectionsBefore, titles \in SeqsUpTo(SaveTitles, MaxSaves)}
    /\ GuiIdle
    /\ BatchIdle
    /\ IcnIdle

\* section_doc.save(out_path): the file is created, or replaced if there is one
SaveFile(files, out_path, ordinal) ==
    {f \in files : f[1] # out_path} \cup {<<out_path, ordinal>>}

\* one iteration of the loop of lines 202-205
SaveNext ==
    /\ sv.i < Len(sv.sections)
    /\ \E out_path \in {OutName(sv.i, sv.sections[sv.i + 1])} :
           sv' = [sv EXCEPT !.i = @ + 1,
                            !.files = SaveFile(@, out_path, sv.i + 1)]
    /\ UNCHANGED <<passVars, segVars, nm, cp, tb, nu, gui, bq, icn>>

NextSave == SaveNext

SpecSave == InitSave /\ [][NextSave]_vars

\* ------------------------------------------- the file name on its own
\* the characters the titles of the model are made of
TitleChars == {"A", "7", " ", "_", "-", ":"}

\* k copies of a letter
Fill(k) == [j \in 1..k |-> "x"]

\* titles as lines 179-183 give them: stripped and not empty; short ones and
\* ones about MAX_TITLE_LEN characters long
Titles ==
    {t \in {Fill(k) \o tail :
                k \in {0} \cup ((MAX_TITLE_LEN - MaxTitleTail)..MAX_TITLE_LEN),
                tail \in SeqsUpTo(TitleChars, MaxTitleTail)} :
        t # <<>> /\ Strip(t) = t}

\* values of the index i of enumerate(sections) (line 202)
SaveIndices == {0, 8, 9, 98, 99}

InitName ==
    /\ InitPass
    /\ SegIdle
    /\ nm \in {[title |-> t, n |-> n, done |-> FALSE, safe_title |-> <<>>,
                 out_name |-> <<>>] : t \in Titles, n \in SaveIndices}
    /\ CopyIdle
    /\ TableIdle
    /\ LaterIdle

\* lines 203-204 for one (title, index)
ApplyName ==
    /\ ~nm.done
    /\ nm' = [nm EXCEPT !.done = TRUE,
                        !.safe_title = SafeTitle(nm.title),
                        !.out_name = OutName(nm.n, nm.title)]
    /\ UNCHANGED <<passVars, segVars, cp, tb, laterVars>>

NextName == ApplyName

SpecName == InitName /\ [][NextName]_vars

\* ================================================================= claims
\* a heading, stated on the block itself
HeadingOf(b, style) == b.kind = "P" /\ b.style = style

RECURSIVE SumLen(_)
SumLen(secs) == IF secs = <<>> THEN 0 ELSE Len(Head(secs).blocks) + SumLen(Tail(secs))

\* the 0-based index in the source of the first block of section k
Offset(secs, k) == SumLen(SubSeq(secs, 1, k - 1))

SegHeadings == {m \in DOMAIN seg_blocks : HeadingOf(seg_blocks[m], seg_style)}

\* C1: the sections returned by the segmenter, concatenated in order, are the
\* source block sequence, and their block counts add up to its length.
C1_SectionsPartitionBlocks ==
    seg_done =>
        /\ Concat([k \in DOMAIN seg_out |-> seg_out[k].blocks]) = seg_blocks
        /\ SumLen(seg_out) = Len(seg_blocks)

C1_Witness ==
    /\ seg_done
    /\ Len(seg_blocks) = MaxSegBlocks
    /\ Len(seg_out) >= 3
    /\ ~HeadingOf(seg_blocks[1], seg_style)

\* C2: for a non-empty block sequence a section starts at every heading-style
\* paragraph and, apart from index 0, nowhere else: inside a section a heading
\* is only ever the first block, every section after the first opens with a
\* heading, the sections start exactly at index 0 and at the headings, and
\* there are as many sections as headings, plus one when the first block is
\* not a heading; [H, H, P, H, P] gives the block counts [1, 2, 2].
C2_SectionsStartAtHeadings ==
    (seg_done /\ seg_blocks # <<>>) =>
        /\ \A k \in DOMAIN seg_out :
               \A m \in 2..Len(seg_out[k].blocks) :
                   ~HeadingOf(seg_out[k].blocks[m], seg_style)
        /\ \A k \in 2..Len(seg_out) : HeadingOf(seg_out[k].blocks[1], seg_style)
        /\ {Offset(seg_out, k) + 1 : k \in DOMAIN seg_out} = SegHeadings \cup {1}
        /\ Len(seg_out) =
               Cardinality(SegHeadings)
               + (IF HeadingOf(seg_blocks[1], seg_style) THEN 0 ELSE 1)
        /\ (seg_blocks = <<H1_A, H1_A, P_Img, H1_A, P_Img>> /\ seg_style = "Heading 1")
               => [k \in DOMAIN seg_out |-> Len(seg_out[k].blocks)] = <<1, 2, 2>>

C2_Witness ==
    /\ seg_done
    /\ seg_style = "Heading 1"
    /\ seg_blocks = <<H1_A, H1_A, P_Img, H1_A, P_Img>>
    /\ Len(seg_out) = 3

\* C3 as claimed: the first section is titled "Introduction" exactly when the
\* source is non-empty and its first block is not a heading, and a source that
\* opens with a heading yields no section titled "Introduction".
C3_IntroductionIffNoLeadingHeading ==
    seg_done =>
        /\ (Len(seg_out) >= 1 /\ seg_out[1].title = Introduction)
               <=> (seg_blocks # <<>> /\ ~HeadingOf(seg_blocks[1], seg_style))
        /\ (seg_blocks # <<>> /\ HeadingOf(seg_blocks[1], seg_style))
               => \A k \in DOMAIN seg_out : seg_out[k].title # Introduction

\* the blocks before the first heading (all of them when there is none)
BeforeFirstHeading ==
    LET firstH == IF SegHeadings = {} THEN Len(seg_blocks) + 1
                  ELSE CHOOSE m \in SegHeadings : \A n \in SegHeadings : m <= n
    IN  SubSeq(seg_blocks, 1, firstH - 1)

\* C3, amended: there is a leading section that does not open with a heading
\* exactly when the source is non-empty and its first block is not a heading;
\* it is titled "Introduction" and holds the blocks before the first heading;
\* any other section titled "Introduction" opens with a heading whose trimmed
\* text is "Introduction".
C3_ImplicitLeadingSection ==
    seg_done =>
        LET implicit == Len(seg_out) >= 1 /\ ~HeadingOf(seg_out[1].blocks[1], seg_style)
        IN  /\ implicit <=> (seg_blocks # <<>> /\ ~HeadingOf(seg_blocks[1], seg_style))
            /\ implicit => /\ seg_out[1].title = Introduction
                           /\ seg_out[1].blocks = BeforeFirstHeading
            /\ \A k \in DOMAIN seg_out :
                   seg_out[k].title = Introduction =>
                       \/ k = 1 /\ implicit
                       \/ /\ HeadingOf(seg_out[k].blocks[1], seg_style)
                          /\ Strip(ParaText(seg_out[k].blocks[1])) = Introduction

C3_Witness ==
    /\ seg_done
    /\ Len(seg_out) >= 2
    /\ ~HeadingOf(seg_out[1].blocks[1], seg_style)
    /\ Len(seg_out[1].blocks) = 2
    /\ seg_out[1].title = Introduction

\* C4: the title of the k-th section of a pass is the trimmed text of its
\* heading, "Introduction" when it does not open with a heading, and Section_<k>
\* when the heading's trimmed text is empty; the k-th file written is the k-th
\* section's and its name starts with the same ordinal k.
C4_SectionTitles ==
    /\ \A k \in DOMAIN sections :
           LET first == sections[k].blocks[1]
               text == Strip(ParaText(first))
           IN  sections[k].title =
                   IF ~HeadingOf(first, DefaultHeadingStyle) THEN Introduction
                   ELSE IF text # <<>> THEN text
                   ELSE SectionPrefix \o Dec(k)
    /\ \A k \in DOMAIN saved :
           /\ saved[k].doc = sections[k].doc
           /\ saved[k].path =
                  Pad2(k) \o <<"_">> \o SafeTitle(sections[k].title) \o DocxSuffix

C4_Witness ==
    /\ Len(saved) >= 3
    /\ sections[1].title = Introduction
    /\ sections[2].title = <<"A">>
    /\ sections[3].title = SectionPrefix \o <<"3">>
    /\ saved[3].path = <<"0", "3", "_">> \o SectionPrefix \o <<"3">> \o DocxSuffix

\* C5: no section has zero blocks, and two headings in a row give two sections,
\* the first holding its heading alone.
C5_NoEmptySection ==
    seg_done =>
        /\ \A k \in DOMAIN seg_out : Len(seg_out[k].blocks) >= 1
        /\ \A m \in DOMAIN seg_blocks :
               (m < Len(seg_blocks) /\ HeadingOf(seg_blocks[m], seg_style)
                    /\ HeadingOf(seg_blocks[m + 1], seg_style))
               => \E k \in DOMAIN seg_out :
                      /\ k < Len(seg_out)
                      /\ Offset(seg_out, k) + 1 = m
                      /\ seg_out[k].blocks = <<seg_blocks[m]>>
                      /\ seg_out[k + 1].blocks[1] = seg_blocks[m + 1]

C5_Witness ==
    /\ seg_done
    /\ Len(seg_blocks) >= 3
    /\ HeadingOf(seg_blocks[1], seg_style)
    /\ HeadingOf(seg_blocks[2], seg_style)
    /\ Len(seg_out) >= 2
    /\ Len(seg_out[1].blocks) = 1

\* C6: when the source has no top-level block the pass returns 0, has written
\* no file, has made no callback, and temp_images does not exist on return.
C6_EmptySourceLeavesNothing ==
    (pc = "done" /\ result.kind = "returned" /\ blocks = <<>>) =>
        /\ result = Returned(0)
        /\ saved = <<>>
        /\ cb_log = <<>>
        /\ ~temp_exists

\* C7: however the pass ends, by returning or by raising to its caller,
\* temp_images has been removed when control is back with the caller.
C7_ScratchRemovedOnEveryExit ==
    pc = "done" =>
        /\ result.kind \in {"returned", "raised"}
        /\ ~temp_exists
        /\ temp_files = {}

\* the pictures of an output document: those of its paragraphs and of the
\* paragraphs in its tables' cells
PicturesOfParagraph(p) ==
    {p.runs[r].pic : r \in {x \in DOMAIN p.runs : p.runs[x].pic # NoPic}}

PicturesOfBlock(b) ==
    IF b.kind = "P" THEN PicturesOfParagraph(b)
    ELSE UNION {UNION {UNION {PicturesOfParagraph(b.rows[r][c][k]) :
                                 k \in DOMAIN b.rows[r][c]} :
                          c \in DOMAIN b.rows[r]} :
                   r \in DOMAIN b.rows}

PicturesOfDoc(doc) == UNION {PicturesOfBlock(doc[k]) : k \in DOMAIN doc}

\* C8: every picture a pass embeds for relationship id r carries the bytes r
\* resolves to in that pass's own source package, whatever earlier passes into
\* the same output directory left behind.
C8_PicturesFromOwnSource ==
    \A k \in DOMAIN sections :
        \A pic \in PicturesOfDoc(sections[k].doc) :
            /\ pic.rId \in DOMAIN rels
            /\ pic.blob = rels[pic.rId].blob

\* the save and callback events of the trace, in order
IsSaveOrCallback(e) == e.ev \in {"save", "callback"}
IsConstruct(e) == e.ev = "construct"
IsSave(e) == e.ev = "save"

\* (1, N), ..., (n, N)
Calls(n, N) == [m \in 1..n |-> <<m, N>>]

\* C9 as claimed: a pass with N sections and a callback has called it exactly
\* N times, with (1, N), ..., (N, N), when it is over.
C9_CallbackExactlyN ==
    (pc = "done" /\ has_callback /\ sections # <<>>
        /\ i >= Len(section_indices) - 1) =>
        cb_log = Calls(Len(sections), Len(sections))

\* C9, amended: with a callback, the calls made so far are (1, N), ..., (n, N)
\* for the n files saved so far, the k-th call coming after the k-th save and
\* before the (k+1)-th; a pass that returns normally has made exactly N calls,
\* a pass whose save of file n + 1 raised has made n.
C9_CallbackAfterEachSave ==
    has_callback =>
        /\ cb_log = Calls(Len(saved), Len(sections))
        /\ SelectSeq(trace, IsSaveOrCallback) =
               [m \in 1..(2 * Len(saved)) |->
                   IF m % 2 = 1 THEN [ev |-> "save", k |-> (m + 1) \div 2]
                   ELSE [ev |-> "callback", k |-> m \div 2]]
        /\ (pc = "done" /\ result.kind = "returned") => Len(cb_log) = Len(sections)
        /\ (pc = "done" /\ result.kind = "raised") => Len(cb_log) = Len(saved)

C9_Witness ==
    /\ pc = "done"
    /\ result = Returned(3)
    /\ has_callback
    /\ cb_log = <<<<1, 3>>, <<2, 3>>, <<3, 3>>>>

\* the number of sections the source of the pass has
SourceSectionCount ==
    Cardinality({m \in DOMAIN blocks : HeadingOf(blocks[m], DefaultHeadingStyle)})
    + (IF blocks # <<>> /\ ~HeadingOf(blocks[1], DefaultHeadingStyle) THEN 1 ELSE 0)

\* a pass that raised while copying the blocks of a section
RaisedWhileCopying ==
    /\ pc = "done"
    /\ result.kind = "raised"
    /\ Len(SelectSeq(trace, IsConstruct)) = Len(sections) + 1

\* C10 as claimed: the file of section k is written before the document of
\* section k + 1 is constructed, so a failure while copying section k + 1
\* leaves the files of sections 1..k on disk.
C10_SavedBeforeNextConstructed ==
    /\ \A b \in DOMAIN trace :
           (trace[b].ev = "construct" /\ trace[b].k > 1) =>
               \E a \in 1..(b - 1) : trace[a] = [ev |-> "save", k |-> trace[b].k - 1]
    /\ RaisedWhileCopying => Len(saved) = Len(sections)

\* C10, amended: the documents of all sections are constructed and filled, in
\* source order, before the first file is written, and the files are then
\* written in source order; a failure while copying any section leaves no file
\* of the pass on disk.
C10_AllBuiltBeforeAnySaved ==
    /\ \A a, b \in DOMAIN trace :
           (trace[a].ev = "construct" /\ trace[b].ev = "save") => a < b
    /\ LET built == SelectSeq(trace, IsConstruct)
       IN  built = [k \in 1..Len(built) |-> [ev |-> "construct", k |-> k]]
    /\ LET written == SelectSeq(trace, IsSave)
       IN  /\ written = [k \in 1..Len(written) |-> [ev |-> "save", k |-> k]]
           /\ Len(written) = Len(saved)
    /\ saved # <<>> => Len(sections) = SourceSectionCount
    /\ RaisedWhileCopying => saved = <<>>

C10_Witness ==
    /\ RaisedWhileCopying
    /\ Len(sections) >= 1
    /\ saved = <<>>

\* the title and the blocks of the sections of the source of the pass, in
\* source order, stated on the block sequence
SourceSections == Segment(blocks, DefaultHeadingStyle)

\* C11: when the pass returns normally, the value returned is the number of
\* sections of the source and the number of files the pass saved, and the
\* files were saved in increasing ordinal order, the k-th file saved carrying
\* ordinal k in its name and holding the document built from the k-th section
\* of the source.
C11_ReturnCountsSectionsAndFiles ==
    (pc = "done" /\ result.kind = "returned") =>
        /\ result.value = SourceSectionCount
        /\ result.value = Len(sections)
        /\ result.value = Len(saved)
        /\ SelectSeq(trace, IsSave) = [k \in 1..Len(saved) |-> [ev |-> "save", k |-> k]]
        /\ \A k \in DOMAIN saved :
               /\ SubSeq(saved[k].path, 1, 3) = Pad2(k) \o <<"_">>
               /\ saved[k].doc = sections[k].doc
               /\ sections[k].title = SourceSections[k].title
               /\ Len(sections[k].blocks) = Len(SourceSections[k].blocks)
               /\ Len(saved[k].doc) = Len(SourceSections[k].blocks)

C11_Witness ==
    /\ pc = "done"
    /\ result = Returned(3)
    /\ Len(saved) = 3
    /\ saved[3].doc # saved[1].doc

\* the characters line 203 keeps
AllowedInName(c) == c \in Letters \cup Digits \cup {" ", "_", "-"}

\* the title with every other character removed
Kept(title) == SelectSeq(title, AllowedInName)

\* the first m characters of s
Prefix(s, m) == SubSeq(s, 1, IF Len(s) < m THEN Len(s) ELSE m)

\* the number a sequence of decimal digits denotes
RECURSIVE DecValue(_)
DecValue(ds) ==
    IF ds = <<>> THEN 0
    ELSE 10 * DecValue(SubSeq(ds, 1, Len(ds) - 1))
         + (CHOOSE d \in 0..9 : DigitChar(d) = ds[Len(ds)])

\* name is number, "_", middle, ".docx", the number being the decimal
\* numeral of ordinal padded with zeros to at least 2 digits
IsOutputName(name, ordinal, middle) ==
    \E w \in 2..Len(name) :
        /\ \A j \in 1..w : name[j] \in Digits
        /\ DecValue(SubSeq(name, 1, w)) = ordinal
        /\ w > 2 => name[1] # "0"
        /\ name = SubSeq(name, 1, w) \o <<"_">> \o middle \o DocxSuffix

\* C12 as claimed: the file of the section of 1-based ordinal n + 1 is named
\* <NN>_<SanitizedTitle>.docx, NN the ordinal padded to at least 2 digits and
\* SanitizedTitle the title with every character other than alphanumerics,
\* space, underscore and hyphen removed, cut to at most 50 characters.
C12_NameIsOrdinalAndKeptTitle ==
    nm.done =>
        /\ IsOutputName(nm.out_name, nm.n + 1, Prefix(Kept(nm.title), MAX_TITLE_LEN))
        /\ Len(nm.safe_title) <= MAX_TITLE_LEN

\* the longest prefix of s that does not end in a space
LastNonSpace(s) ==
    IF \E j \in DOMAIN s : s[j] # " "
    THEN CHOOSE j \in DOMAIN s : s[j] # " " /\ \A m \in (j + 1)..Len(s) : s[m] = " "
    ELSE 0

\* C12, amended: the file is named <NN>_<SanitizedTitle>.docx, NN the 1-based
\* ordinal padded to at least 2 digits; SanitizedTitle is the title with every
\* character other than alphanumerics, space, underscore and hyphen removed,
\* then with the trailing spaces this leaves removed, then cut to its first 50
\* characters (so it may end in a space only where it was cut).
C12_NameIsOrdinalAndSanitizedTitle ==
    nm.done =>
        LET kept == Kept(nm.title)
            trimmed == SubSeq(kept, 1, LastNonSpace(kept))
        IN  /\ nm.safe_title = Prefix(trimmed, MAX_TITLE_LEN)
            /\ Len(nm.safe_title) <= MAX_TITLE_LEN
            /\ IsOutputName(nm.out_name, nm.n + 1, nm.safe_title)

\* a title from which a character is removed and which is then cut, after a
\* space, with a 3-digit ordinal
C12_Witness ==
    /\ nm.done
    /\ nm.n + 1 = 100
    /\ Kept(nm.title) # nm.title
    /\ Len(Kept(nm.title)) > MAX_TITLE_LEN
    /\ Len(nm.safe_title) = MAX_TITLE_LEN
    /\ nm.safe_title[MAX_TITLE_LEN] = " "

\* C13: every output document of a pass, and so every file saved, carries the
\* page height, page width and four margins of the first section definition
\* of the source, whichever section it holds and however many section
\* definitions the source has.
C13_GeometryOfFirstSectionDefinition ==
    src_sections # <<>> =>
        /\ \A k \in DOMAIN sections :
               /\ sections[k].geom.page_height = src_sections[1].page_height
               /\ sections[k].geom.page_width = src_sections[1].page_width
               /\ sections[k].geom.left_margin = src_sections[1].left_margin
               /\ sections[k].geom.right_margin = src_sections[1].right_margin
               /\ sections[k].geom.top_margin = src_sections[1].top_margin
               /\ sections[k].geom.bottom_margin = src_sections[1].bottom_margin
        /\ \A k \in DOMAIN saved : saved[k].geom = src_sections[1]

C13_Witness ==
    /\ Len(src_sections) >= 2
    /\ src_sections[1] # src_sections[Len(src_sections)]
    /\ src_sections[1] # TemplateGeometry
    /\ Len(saved) >= 2
    /\ saved[2].geom = src_sections[1]

\* C14 as claimed: the source is read-only: after copy_paragraph has copied a
\* paragraph, that source paragraph has the style, alignment, numbering
\* reference and runs it had before.
C14_SourceUnchangedByCopy ==
    \A k \in DOMAIN cp.sources :
        /\ cp.after[k].style = cp.sources[k].style
        /\ cp.after[k].align = cp.sources[k].align
        /\ cp.after[k].num = cp.sources[k].num
        /\ cp.after[k].runs = cp.sources[k].runs

\* target_para is what copy_paragraph makes of source_para: an empty paragraph
\* for a bare one, else a paragraph of its style and alignment whose first
\* run has the text of its first run
CopyOf(source_para, target_para) ==
    /\ target_para.kind = "P"
    /\ IF IsBareParagraph(source_para) THEN target_para.runs = <<>>
       ELSE /\ target_para.style = source_para.style
            /\ target_para.align = source_para.align
            /\ target_para.runs # <<>>
            /\ target_para.runs[1].text = source_para.runs[1].text

\* C15: every call of the paragraph copier, whether it returns or raises,
\* leaves the blocks its target container already held as they were and
\* appends exactly one paragraph after them, the copy of its source
\* paragraph; so the paragraphs of the container are in the order of the
\* calls.
C15_AppendsExactlyOneParagraph ==
    [][cp'.sources # cp.sources =>
          /\ Len(cp'.target) = Len(cp.target) + 1
          /\ SubSeq(cp'.target, 1, Len(cp.target)) = cp.target
          /\ CopyOf(cp'.sources[Len(cp'.sources)], cp'.target[Len(cp'.target)])
          /\ \A k \in DOMAIN cp'.target : CopyOf(cp'.sources[k], cp'.target[k])]_vars

C15_Witness ==
    /\ cp.sources = <<H1_Blank, P_TwoImg>>
    /\ Len(cp.target) = 2
    /\ cp.target[1] = NewParagraph
    /\ Len(cp.target[2].runs) > 2

\* the drawings of a paragraph, run by run
DrawingsOf(p) == Concat([k \in DOMAIN p.runs |-> p.runs[k].drawings])

\* what the claim has copy_paragraph append for drawing d
ArtifactFor(d, rel) ==
    IF d.rId = "" THEN "shape"
    ELSE IF d.rId \notin DOMAIN rel THEN "broken link"
    ELSE IF rel[d.rId].kind # "image" THEN "non-image object"
    ELSE "picture"

\* what a run of the target is: a picture, one of the three placeholders, or
\* the copy of a source run
ArtifactKind(run) ==
    IF run.pic # NoPic THEN "picture"
    ELSE IF run.text = ShapeNote THEN "shape"
    ELSE IF run.text = BrokenLinkNote THEN "broken link"
    ELSE IF run.text = ComplexObjectNote THEN "non-image object"
    ELSE "text"

IsArtifact(run) == ArtifactKind(run) # "text"

ArtifactsOf(p) ==
    LET as == SelectSeq(p.runs, IsArtifact)
    IN  [k \in DOMAIN as |-> ArtifactKind(as[k])]

\* C16 as claimed: for every drawing of a copied paragraph exactly one
\* artifact is appended to the target paragraph, in order, and the copying
\* goes on: the shape placeholder without a relationship id, the broken-link
\* placeholder for an id absent from the relationship table, the non-image
\* placeholder for a part that is no image, and a picture otherwise; the
\* three placeholder texts are pairwise distinct and their runs italic.
C16_OneArtifactPerDrawing ==
    /\ cp.ok
    /\ ShapeNote # BrokenLinkNote
    /\ ShapeNote # ComplexObjectNote
    /\ BrokenLinkNote # ComplexObjectNote
    /\ \A k \in DOMAIN cp.sources :
           ~IsBareParagraph(cp.sources[k]) =>
               LET ds == DrawingsOf(cp.sources[k])
               IN  /\ ArtifactsOf(cp.target[k]) =
                          [j \in DOMAIN ds |-> ArtifactFor(ds[j], cp.rels)]
                   /\ \A j \in DOMAIN cp.target[k].runs :
                          ArtifactKind(cp.target[k].runs[j])
                              \in {"shape", "broken link", "non-image object"}
                          => cp.target[k].runs[j].italic = TRUE

\* the number of blocks the copy of one block of a source cell puts into the
\* target cell, as claimed: one for a paragraph, one marker and one per row
\* for a table
BlocksFor(block) == IF block.kind = "P" THEN 1 ELSE 1 + Len(block.rows)

RECURSIVE BlocksBefore(_, _)
\* the number of blocks of the target cell that come before those of the
\* k-th block of the source cell
BlocksBefore(cell, k) ==
    IF k = 1 THEN 0 ELSE BlocksBefore(cell, k - 1) + BlocksFor(cell[k - 1])

\* the text of the paragraph that stands for one row of a nested table
RowLine(nested_row) ==
    Join(<<"\t">>, [c \in DOMAIN nested_row |-> Strip(CellText(nested_row[c]))])

\* target_cell is the copy of source_cell: every block of it is a paragraph,
\* and a table of the source cell is replaced by the marker paragraph and one
\* paragraph per row
FlattenedCell(source_cell, target_cell) ==
    /\ \A m \in DOMAIN target_cell : target_cell[m].kind = "P"
    /\ Len(target_cell) = BlocksBefore(source_cell, Len(source_cell) + 1)
    /\ \A k \in DOMAIN source_cell :
           LET at == BlocksBefore(source_cell, k)
               block == source_cell[k]
           IN  IF block.kind = "P" THEN CopyOf(block, target_cell[at + 1])
               ELSE /\ ParaText(target_cell[at + 1]) = NestedMarker
                    /\ \A r \in DOMAIN block.rows :
                           ParaText(target_cell[at + 1 + r]) = RowLine(block.rows[r])

\* C17: copy_table into a cell creates no table and does not raise: for a
\* table inside a cell of the source it appends one marker paragraph and then
\* one paragraph per row, whose text is the row's trimmed cell texts joined by
\* tabs; so no cell of a copied table holds a table, whether or not the copy
\* of the table was completed.
C17_NestedTableFlattened ==
    tb.done =>
        /\ tb.out.kind = "T"
        /\ \A r \in DOMAIN tb.out.rows : \A c \in DOMAIN tb.out.rows[r] :
               \A m \in DOMAIN tb.out.rows[r][c] : tb.out.rows[r][c][m].kind = "P"
        /\ tb.ok =>
               /\ Len(tb.out.rows) = Len(tb.source.rows)
               /\ \A r \in DOMAIN tb.source.rows :
                      /\ Len(tb.out.rows[r]) = Len(tb.source.rows[r])
                      /\ \A c \in DOMAIN tb.source.rows[r] :
                             FlattenedCell(tb.source.rows[r][c], tb.out.rows[r][c])

\* a table with a cell that holds a paragraph, a nested table of two rows and
\* a paragraph, and a cell that holds a nested table with a table in it
C17_Witness ==
    /\ tb.done
    /\ tb.ok
    /\ tb.source.rows = <<<<CellDeep, CellMixed>>, <<CellPlain, CellNested>>>>
    /\ Len(tb.out.rows[1][2]) = 5
    /\ ParaText(tb.out.rows[1][2][3]) = <<"p", " ", "\n", "q", "\t", "\t", "r">>

\* the places of the log at which the blob of rId is read, or its file written
ReadsOf(rId) == {a \in DOMAIN cp.log : cp.log[a].op = "read" /\ cp.log[a].rId = rId}
WritesOf(rId) == {a \in DOMAIN cp.log : cp.log[a].op = "write" /\ cp.log[a].rId = rId}
ResolvedIds == {cp.log[a].rId : a \in DOMAIN cp.log}

\* the first place of a non-empty set of places
First(places) == CHOOSE a \in places : \A b \in places : a <= b

\* C19: within one pass (one scratch directory, one package, any number of
\* paragraphs and runs naming the same id) the file of a relationship id is
\* written at most once; it is written at the first resolution of the id and
\* at no later one, and it is written then whenever the directory held no
\* file of that name when the pass began; a file of the scratch directory,
\* once there, is never rewritten or removed by the copier; and two different
\* ids have different files.
C19_ScratchFileWrittenAtMostOnce ==
    /\ [](\A rId \in ResolvedIds :
             /\ Cardinality(WritesOf(rId)) <= 1
             /\ \A w \in WritesOf(rId) : w = First(ReadsOf(rId)) + 1
             /\ cp.log[First(ReadsOf(rId))].name \notin FileNames(cp.files0)
                    => WritesOf(rId) # {}
             /\ \A a \in DOMAIN cp.log :
                    cp.log[a].rId # rId => cp.log[a].name # cp.log[First(ReadsOf(rId))].name
             /\ Cardinality({f \in cp.files :
                                f[1] = cp.log[First(ReadsOf(rId))].name}) = 1)
    /\ [][cp.files \subseteq cp'.files]_vars

\* three resolutions of one id and one of another, in two paragraphs, into a
\* directory that was empty: one file each, written once
C19_Witness ==
    /\ cp.files0 = {}
    /\ cp.sources = <<P_TwoImg, P_Img>>
    /\ Cardinality(ReadsOf("rId1")) = 3
    /\ Cardinality(WritesOf("rId1")) = 1
    /\ Cardinality(WritesOf("rId2")) = 1
    /\ Cardinality(cp.files) = 2

\* C20 as claimed: a second or later resolution of a relationship id within
\* one pass uses the file extracted before and does not read the image bytes
\* from the source package again: the blob of an id is read at most once.
C20_BlobReadOnlyOnce ==
    \A rId \in ResolvedIds : Cardinality(ReadsOf(rId)) <= 1

\* C21: copy_numbering replaces: when the source paragraph has a numbering
\* reference the target afterwards carries that reference (numId and ilvl),
\* whatever reference it carried before, and when the source has none the
\* target's reference is as it was; nothing else of the target changes. (A
\* paragraph of the model carries one reference or none.)
C21_NumberingReplaced ==
    nu.done =>
        /\ nu.source.num # NoNum =>
               /\ nu.out.num.numId = nu.source.num.numId
               /\ nu.out.num.ilvl = nu.source.num.ilvl
        /\ nu.source.num = NoNum => nu.out.num = nu.target.num
        /\ nu.out.style = nu.target.style
        /\ nu.out.align = nu.target.align
        /\ nu.out.runs = nu.target.runs

C21_Witness ==
    /\ nu.done
    /\ nu.source.num # NoNum
    /\ nu.target.num # NoNum
    /\ nu.target.num # nu.source.num
    /\ nu.out.num = nu.source.num

\* two tri-state values (True, False, or unset) are the same
SameTriState(a, b) == ToString(a) = ToString(b)

\* the runs of a target paragraph that are copies of source runs
CopiedRuns(p) ==
    LET isCopy(run) == ~IsArtifact(run)
    IN  SelectSeq(p.runs, isCopy)

\* C22: a paragraph that is not bare and whose copy returned is copied run by
\* run, in order: each source run gives one run of the same text, the same
\* bold, italic and underline (True stays True, False stays False, unset
\* stays unset) and the same font size.
C22_RunsReproduced ==
    \A k \in DOMAIN cp.sources :
        (~IsBareParagraph(cp.sources[k]) /\ (k < Len(cp.sources) \/ cp.ok)) =>
            LET src == cp.sources[k].runs
                out == CopiedRuns(cp.target[k])
            IN  /\ Len(out) = Len(src)
                /\ \A j \in DOMAIN src :
                       /\ out[j].text = src[j].text
                       /\ SameTriState(out[j].bold, src[j].bold)
                       /\ SameTriState(out[j].italic, src[j].italic)
                       /\ SameTriState(out[j].underline, src[j].underline)
                       /\ out[j].size = src[j].size

\* bold = True, italic = False, size 12 and underline unset, copied; and a
\* paragraph of two runs with drawings between them
C22_Witness ==
    /\ cp.ok
    /\ cp.sources = <<H2_B, P_TwoImg>>
    /\ SameTriState(cp.target[1].runs[1].bold, TRUE)
    /\ SameTriState(cp.target[1].runs[1].italic, FALSE)
    /\ SameTriState(cp.target[1].runs[1].underline, Inherit)
    /\ cp.target[1].runs[1].size = 12
    /\ Len(cp.target[2].runs) = 5
    /\ Len(CopiedRuns(cp.target[2])) = 2

\* p has no character that is not white space, and no run of p has a drawing
NothingToShow(p) ==
    /\ \A k \in DOMAIN p.runs :
           \A j \in DOMAIN p.runs[k].text : p.runs[k].text[j] \in Whitespace
    /\ DrawingsOf(p) = <<>>

\* C23: a source paragraph without non-blank text and without a drawing is
\* copied as one bare paragraph, on which no style, alignment, numbering
\* reference or run of the source is reproduced; every other paragraph is
\* copied with the style and the alignment of its source.
C23_BareParagraph ==
    \A k \in DOMAIN cp.sources :
        IF NothingToShow(cp.sources[k])
        THEN /\ cp.target[k].style = NewParagraph.style
             /\ cp.target[k].align = NewParagraph.align
             /\ cp.target[k].num = NoNum
             /\ cp.target[k].runs = <<>>
        ELSE /\ cp.target[k].style = cp.sources[k].style
             /\ cp.target[k].align = cp.sources[k].align

C23_Witness ==
    /\ cp.sources = <<P_BareStyled, P_Shape>>
    /\ cp.target[1] = NewParagraph
    /\ cp.target[2].align = "center"
    /\ cp.target[2].runs # <<>>

\* C24: a table copied into the document root, once copy_table has returned,
\* has the style, the autofit flag and the column widths of the source and
\* as many rows, and as many cells in each row, as the source; each of its
\* cells holds the copies of the blocks of the source cell, in order, the
\* copy of the first block first: no paragraph stands in front of them.
C24_RootTableCopied ==
    (tb.done /\ tb.ok) =>
        /\ tb.out.style = tb.source.style
        /\ tb.out.autofit = tb.source.autofit
        /\ tb.out.widths = tb.source.widths
        /\ Len(tb.out.rows) = Len(tb.source.rows)
        /\ \A r \in DOMAIN tb.source.rows :
               /\ Len(tb.out.rows[r]) = Len(tb.source.rows[r])
               /\ Len(tb.out.rows[r]) = Len(tb.out.widths)
               /\ \A c \in DOMAIN tb.source.rows[r] :
                      LET source_cell == tb.source.rows[r][c]
                          target_cell == tb.out.rows[r][c]
                      IN  /\ FlattenedCell(source_cell, target_cell)
                          /\ source_cell[1].kind = "P" =>
                                 CopyOf(source_cell[1], target_cell[1])
                          /\ source_cell[1].kind = "T" =>
                                 ParaText(target_cell[1]) = NestedMarker

\* a table of two rows with a picture in a cell, copied with its look
C24_Witness ==
    /\ tb.done
    /\ tb.ok
    /\ tb.source.autofit
    /\ tb.source.rows = <<<<CellPicture, CellDeep>>, <<CellEmpty, CellPlain>>>>
    /\ tb.out.widths = <<EMU_PER_INCH, 0>>
    /\ Len(tb.out.rows[1][1]) = 1
    /\ tb.out.rows[1][1][1].runs[2].pic # NoPic
    /\ tb.out.rows[2][1] = <<NewParagraph>>

\* the width the claim gives the picture of drawing d, in EMU: the declared
\* cx, and three inches where there is no extent or no cx that is an integer
ClaimedWidth(d) ==
    IF d.cx \in {NoExtent, UnparsableCx, MissingCx}
    THEN DEFAULT_WIDTH_INCHES * EMU_PER_INCH
    ELSE d.cx

\* drawing d is an image that resolves: its relationship leads to an image
\* part, and the scratch file of its name holds an image add_picture reads
Resolves(d, rel, files) ==
    /\ d.rId # ""
    /\ d.rId \in DOMAIN rel
    /\ rel[d.rId].kind = "image"
    /\ <<d.rId, rel[d.rId].ext>> \in FileNames(files)
    /\ FileContent(files, <<d.rId, rel[d.rId].ext>>) \in RecognisedBlobs

\* the widths of the pictures of a paragraph, in order
PictureWidths(p) ==
    LET pics == SelectSeq(p.runs, LAMBDA run : run.pic # NoPic)
    IN  [j \in DOMAIN pics |-> pics[j].pic.width]

\* C25 as claimed: a successfully resolved image is appended as a picture
\* whose width is the drawing's declared extent cx, in EMU, and is exactly
\* three inches when the drawing declares no extent or an extent that cannot
\* be parsed as an integer; here for the copied paragraphs all of whose
\* drawings are images that resolve.
C25_PictureWidthIsExtent ==
    \A k \in DOMAIN cp.sources :
        LET ds == DrawingsOf(cp.sources[k])
        IN  (\A j \in DOMAIN ds : Resolves(ds[j], cp.rels, cp.files))
            => PictureWidths(cp.target[k]) = [j \in DOMAIN ds |-> ClaimedWidth(ds[j])]

\* where the claim on the width holds in the model: extents that are a whole
\* number of inches or absent, and extents that int() rejects
C25_WholeInches ==
    \A k \in DOMAIN cp.sources :
        LET ds == DrawingsOf(cp.sources[k])
        IN  /\ \A j \in DOMAIN ds : Resolves(ds[j], cp.rels, cp.files)
            /\ \A j \in DOMAIN ds : ds[j].cx \in {NoExtent, UnparsableCx}
                                    \/ (ds[j].cx >= 0 /\ ds[j].cx % EMU_PER_INCH = 0)
            => PictureWidths(cp.target[k]) = [j \in DOMAIN ds |-> ClaimedWidth(ds[j])]

\* C26: within one pass no two sections are saved to the same path: whatever
\* the titles (equal ones, ones that sanitise to the same or to the empty
\* string, a heading that reads like a fallback title), the file names of
\* different ordinals differ, so every section saved so far still has its
\* own file and no file of the pass has replaced another.
C26_NoOverwriteWithinPass ==
    /\ Cardinality(sv.files) = sv.i
    /\ {f[2] : f \in sv.files} = 1..sv.i

C26_Witness ==
    /\ sv.i = Len(sv.sections)
    /\ sv.i > 10
    /\ \E a, b \in DOMAIN sv.sections :
           a # b /\ sv.sections[a] = sv.sections[b]
    /\ \E a, b \in DOMAIN sv.sections :
           /\ sv.sections[a] # sv.sections[b]
           /\ SafeTitle(sv.sections[a]) = SafeTitle(sv.sections[b])
    /\ \E a \in DOMAIN sv.sections : SafeTitle(sv.sections[a]) = <<>>

RECURSIVE OwnParagraphTexts(_)
\* the texts of the paragraphs that are direct children of a cell, in order
OwnParagraphTexts(cell) ==
    IF cell = <<>> THEN <<>>
    ELSE (IF Head(cell).kind = "P" THEN <<ParaText(Head(cell))>> ELSE <<>>)
         \o OwnParagraphTexts(Tail(cell))

\* the line that stands for a row of a nested table, from the text of the
\* paragraphs that are direct children of its cells only
OwnRowLine(nested_row) ==
    Join(<<"\t">>, [c \in DOMAIN nested_row |->
                       Strip(Join(<<"\n">>, OwnParagraphTexts(nested_row[c])))])

\* the drawings of a paragraph, as a set
DrawingSet(p) == {DrawingsOf(p)[j] : j \in DOMAIN DrawingsOf(p)}

\* the scratch files the drawings of the paragraphs that are direct children
\* of the cells of a table may bring about
OwnImageFiles(t, rel) ==
    {<<d.rId, rel[d.rId].ext>> :
        d \in {d \in UNION {UNION {UNION {DrawingSet(t.rows[r][c][k]) :
                                             k \in {k \in DOMAIN t.rows[r][c] :
                                                       t.rows[r][c][k].kind = "P"}} :
                                      c \in DOMAIN t.rows[r]} :
                               r \in DOMAIN t.rows} :
                  d.rId \in DOMAIN rel /\ rel[d.rId].kind = "image"}}

\* C27: the flattened form of a nested table is built only from the text of
\* the paragraphs that are direct children of the nested table's cells: the
\* marker and one line per row stand for it and nothing else, a line holds
\* no picture and no placeholder, the text of a table nested one level deeper
\* is not in it, and no drawing inside the nested table is resolved (no
\* scratch file is written for it).
C27_NestedTableTextOnly ==
    tb.done =>
        /\ FileNames(tb.files) \subseteq OwnImageFiles(tb.source, tb.rels)
        /\ tb.ok =>
               \A r \in DOMAIN tb.source.rows : \A c \in DOMAIN tb.source.rows[r] :
                   LET source_cell == tb.source.rows[r][c]
                       target_cell == tb.out.rows[r][c]
                   IN  /\ Len(target_cell) = BlocksBefore(source_cell, Len(source_cell) + 1)
                       /\ \A k \in DOMAIN source_cell :
                              source_cell[k].kind = "T" =>
                                  \A n \in DOMAIN source_cell[k].rows :
                                      LET line == target_cell[BlocksBefore(source_cell, k) + 1 + n]
                                      IN  /\ ParaText(line) = OwnRowLine(source_cell[k].rows[n])
                                          /\ \A j \in DOMAIN line.runs :
                                                 ~IsArtifact(line.runs[j])

\* a table whose cell holds a nested table with a table and a picture inside,
\* from a package whose image add_picture would reject: the copy returns and
\* no scratch file is written
C27_Witness ==
    /\ tb.done
    /\ tb.ok
    /\ tb.rels = RelsEmf
    /\ tb.source.rows = <<<<CellDeep, CellMixed>>>>
    /\ tb.files = {}
    /\ Len(tb.out.rows[1][1]) = 3
    /\ ParaText(tb.out.rows[1][1][2]) = <<"d", "\t", "x">>

\* the worker threads of the splitter window that have not ended
ActiveWorkers(g) == {w \in DOMAIN g.workers : g.workers[w].pc # "ended"}

\* C28: in the splitter window at most one recomposition pass runs at any
\* time: the button is disabled exactly while a worker thread is active; it
\* becomes disabled in the step of the UI thread that starts the worker and
\* becomes enabled again only in the step in which a worker leaves its
\* finally block; a worker is started only when none is active; and once
\* a worker has ended, whatever its pass has come to, the button is enabled.
C28_OnePassAtATime ==
    /\ [](/\ Cardinality(ActiveWorkers(gui)) <= 1
          /\ gui.button = "disabled" <=> ActiveWorkers(gui) # {}
          /\ gui.button \in {"normal", "disabled"})
    /\ [][/\ Len(gui'.workers) > Len(gui.workers) =>
                 /\ ActiveWorkers(gui) = {}
                 /\ gui.button = "normal"
                 /\ gui'.button = "disabled"
          /\ (gui.button = "normal" /\ gui'.button = "disabled") =>
                 Len(gui'.workers) = Len(gui.workers) + 1
          /\ (gui.button = "disabled" /\ gui'.button = "normal") =>
                 \E w \in DOMAIN gui.workers :
                     /\ gui.workers[w].pc = "finally"
                     /\ gui'.workers[w].pc = "ended"]_vars

\* three passes have been run from one window, one that wrote sections, one
\* that found none and one that raised, and the button is enabled again
C28_Witness ==
    /\ Len(gui.workers) = 3
    /\ ActiveWorkers(gui) = {}
    /\ {gui.workers[w].box : w \in DOMAIN gui.workers} = {"info", "warning", "error"}
    /\ gui.button = "normal"
    /\ gui.status = "Ready"

\* the text of the log widget once every message put since the last start
\* is displayed
AllShown(b) == Concat([k \in DOMAIN b.put |-> Shown(b.app, b.put[k])])

\* every worker thread has put all its messages
WorkersEnded(b) == \A w \in DOMAIN b.todo : b.todo[w] = <<>>

\* C29 as claimed: in the batch windows, after every batch run started in a
\* session, the first and every later one, whether it processes files, finds
\* none or raises, eventually every message the worker has queued is
\* displayed and the Start button is enabled again.
C29_EveryRunCompletes ==
    (bq.button = "disabled")
        ~> (bq.button = "normal" /\ WorkersEnded(bq) /\ bq.log = AllShown(bq))

\* what holds of the first run of a session: its messages are displayed and
\* the button is enabled again
C29_FirstRunShown ==
    (bq.button = "disabled" /\ bq.runs = 1)
        ~> (bq.button = "normal" /\ bq.log = AllShown(bq))

\* the sequence number a label carries: the fourth part from its end
SequenceNumberOf(label) ==
    LET parts == SplitOn(label, "-", <<>>)
    IN  DecValue(parts[Len(parts) - 3])

\* C30 as claimed: across one ICN batch the sequence numbers embedded in the
\* labels inserted into the documents, in processing order across all
\* files, are the consecutive integers from the configured Sequence Start
\* on, without gap or duplicate, each file going on where the one before it
\* ended.
C30_SequenceContinuous ==
    icn.pc \in {"files", "done"} =>
        \A n \in DOMAIN icn.labels :
            SequenceNumberOf(icn.labels[n]) = DecValue(icn.sq_start) + n - 1

\* where the claim holds: in a batch all of whose file names give a label
C30_ContinuousWhenNamed ==
    (icn.pc \in {"files", "done"}
     /\ \A k \in 1..icn.done :
            SubsystemIndex(SplitOn(icn.files[k].name, "-", <<>>)) # -1)
    => \A n \in DOMAIN icn.labels :
           SequenceNumberOf(icn.labels[n]) = DecValue(icn.sq_start) + n - 1

====
